---- MODULE Spec2Model ----
(***************************************************************************)
(* Model of the gar archive manager (cubetiqlabs/gar): the path guard of   *)
(* both extractors, the bounded worker pool of extractZip, the sequential  *)
(* loop of extractTarGz, the AES-GCM stream wrapper, the Operator's        *)
(* Compress/Extract/List pipeline and the command line (Parse and main).   *)
(*                                                                         *)
(* Strings are sequences of one-character strings, so that the string      *)
(* functions of the code (strings.HasPrefix, filepath.Clean, ...) are      *)
(* computed character by character as the Go library computes them.        *)
(***************************************************************************)
EXTENDS Integers, Sequences, FiniteSets, TLC

\* ------------------------------------------------------------------ bounds
MaxNameLen == 4
MaxEntries == 3
MaxZipEntries == 2
MaxWorkers == 2
MaxWrites == 2
MaxChunk == 2
MaxReads == 3
MaxReadLen == 3
MaxArgs == 4

VARIABLES
    \* one entry extracted by either extractor (path guard)
    format,        \* "zip" | "tar.gz": which extractor handles the entry
    wd,            \* the process working directory (os.Getwd)
    outputPath,    \* the output root handed to Extract
    entryName,     \* f.Name / header.Name
    entryKind,     \* "file" | "dir"
    gpc,           \* "idle" | "ready" | "done"
    gerr,          \* the error the extractor returned for the entry
    written        \* what the extractor created or truncated: [loc, kind]

guardVars == <<format, wd, outputPath, entryName, entryKind, gpc, gerr, written>>

VARIABLES
    \* extractZip: the dispatch loop and its goroutines
    workers,       \* opts.Workers
    files,         \* zipReader.File: the entry names in directory order
    mpc,           \* position of extractZip itself
    next,          \* index of the range loop over zipReader.File
    wg,            \* the WaitGroup counter
    sem,           \* number of tokens in the sem channel
    errChan,       \* contents of the errChan channel
    gor,           \* the goroutines started, in start order
    stderr,        \* entries reported on os.Stderr
    zerr           \* the error extractZip returned

zipVars == <<workers, files, mpc, next, wg, sem, errChan, gor, stderr, zerr>>

VARIABLES
    \* one encrypted stream: an EncryptedWriter, its sink, an EncryptedReader
    cpc,           \* "idle" | "new" | "writing" | "written" | "reading"
    ew,            \* the EncryptedWriter: [password, salt, nonce]
    sink,          \* the bytes the underlying writer received
    seals,         \* the <<key, nonce>> of every gcm.Seal call, in order
    wrote,         \* the p of every Write call, in order
    lastWrite,     \* [len |-> len(p), n |-> returned n] of the last Write
    tampered,      \* the sink was modified after it was written
    er,            \* the EncryptedReader: [password, key, nonce]
    rpos,          \* bytes of sink the underlying reader has delivered
    got,           \* the bytes every Read handed to its caller, in order
    lastRead,      \* [len, n, err, p] of the last Read (p: caller's buffer)
    nreads,        \* number of Read calls
    nerrs          \* number of Read calls that returned an error

cryptoVars == <<cpc, ew, sink, seals, wrote, lastWrite, tampered, er, rpos, got,
                lastRead, nreads, nerrs>>

VARIABLES
    \* the Operator: Compress of a file tree, then Extract of the archive
    opc,           \* "idle" | "start" | "compressed" | "extracted" | "listed"
    tree,          \* the input: [single, nodes] (nodes in filepath.Walk order)
    level,         \* op.opts.CompressionLevel: "fastest" | "normal" | "best"
    password,      \* op.opts.Password
    archivePath,   \* the path of the archive file
    cerr,          \* the error Compress returned
    xerr,          \* the error Extract returned
    outTree,       \* the files and directories Extract created
    xin,           \* the bytes Extract's decoder was given to read
    listing,       \* the lines List printed: [name, size]
    lerr,          \* the error List returned
    lopened        \* List opened the archive file

opVars == <<opc, tree, level, password, archivePath, cerr, xerr, outTree, xin, listing, lerr, lopened>>

VARIABLES
    \* extractTarGz: the sequential loop over the tar stream
    tpc,           \* "idle" | "gzip" | "next" | "entry" | "returned"
    theaders,      \* the entries of the stream in order: [name, kind]
    tread,         \* number of headers tarReader.Next has returned
    tlog,          \* one record per loop iteration: [e, err]
    terr           \* the error extractTarGz returned

tarVars == <<tpc, theaders, tread, tlog, terr>>

VARIABLES
    \* the command line: Parser.Parse, then main's dispatch to the Operator
    argv,          \* os.Args[1:]
    numCPU,        \* runtime.NumCPU()
    cliArgs,       \* the CLIArgs Parse returned
    perr,          \* the error Parse returned
    mainpc,        \* "idle" | "args" | "parsed" | "operator" | "exit" | "aborted"
    opts,          \* the ArchiveOptions main built for the Operator
    call,          \* the Operator call main made: [action, input, output]
    exitCode       \* the status the process ended with

cliVars == <<argv, numCPU, cliArgs, perr, mainpc, opts, call, exitCode>>

VARIABLES
    \* file handles and errors of one Compress or Extract call
    fpc,           \* "idle" | "start" | "wrap" | "entries" | "go" | "copy"
                   \*   | "codecReturn" | "operatorReturn" | "returned"
    fop,           \* the call: [kind, format, pw, single, n, workers]
    fi,            \* entries processed (extractZip: dispatched) so far
    ftasks,        \* extractZip: the goroutines started, by entry: [pc, err]
    fsem,          \* extractZip: the slots of sem that are taken
    fopen,         \* the handles that are open: [kind, id]
    codefers,      \* the deferred Close calls of the codec function, as registered
    fbody,         \* the error the codec function is about to return
    ferr,          \* the error the Operator call returned
    lost           \* the calls whose error value was dropped

fileVars == <<fpc, fop, fi, ftasks, fsem, fopen, codefers, fbody, ferr, lost>>

vars == <<guardVars, zipVars, cryptoVars, opVars, tarVars, cliVars, fileVars>>
notGuardVars == <<zipVars, cryptoVars, opVars, tarVars, cliVars, fileVars>>
notZipVars == <<format, entryName, entryKind, gpc, gerr, cryptoVars, opVars, tarVars, cliVars, fileVars>>
notCryptoVars == <<guardVars, zipVars, opVars, tarVars, cliVars, fileVars>>
notOpVars == <<entryName, entryKind, gpc, gerr, written, zipVars,
               cpc, lastWrite, tampered, rpos, got, lastRead, nreads, nerrs, tarVars, cliVars,
               fileVars>>
notTarVars == <<format, entryName, entryKind, gpc, gerr, zipVars, cryptoVars, opVars, cliVars, fileVars>>
notCliVars == <<guardVars, zipVars, cryptoVars, opVars, tarVars, fileVars>>
notFileVars == <<guardVars, zipVars, cryptoVars, opVars, tarVars, cliVars>>

\* ------------------------------------------------------- strings and paths
Sep == "/"
Dot == <<".">>
DotDot == <<".", ".">>

\* strings.HasPrefix(s, prefix)
HasPrefix(s, prefix) ==
    /\ Len(prefix) <= Len(s)
    /\ SubSeq(s, 1, Len(prefix)) = prefix

\* the elements of a path between separators (empty elements included)
RECURSIVE SplitAcc(_, _, _)
SplitAcc(s, cur, acc) ==
    IF s = <<>> THEN Append(acc, cur)
    ELSE IF Head(s) = Sep THEN SplitAcc(Tail(s), <<>>, Append(acc, cur))
         ELSE SplitAcc(Tail(s), Append(cur, Head(s)), acc)

SplitPath(s) == SplitAcc(s, <<>>, <<>>)

\* strings.Join(elems, "/")
RECURSIVE JoinSep(_)
JoinSep(elems) ==
    IF elems = <<>> THEN <<>>
    ELSE IF Len(elems) = 1 THEN elems[1]
         ELSE elems[1] \o <<Sep>> \o JoinSep(Tail(elems))

IsAbs(path) == HasPrefix(path, <<Sep>>)

\* the element stack filepath.Clean builds: "." and empty elements are
\* dropped, ".." removes the last real element, is kept at the front of a
\* relative path and is dropped at the root of a rooted one
RECURSIVE CleanElems(_, _, _)
CleanElems(elems, out, rooted) ==
    IF elems = <<>> THEN out
    ELSE LET e == Head(elems)
             rest == Tail(elems)
         IN  IF e = <<>> \/ e = Dot THEN CleanElems(rest, out, rooted)
             ELSE IF e = DotDot
                  THEN IF out # <<>> /\ out[Len(out)] # DotDot
                       THEN CleanElems(rest, SubSeq(out, 1, Len(out) - 1), rooted)
                       ELSE IF rooted THEN CleanElems(rest, out, rooted)
                            ELSE CleanElems(rest, Append(out, DotDot), rooted)
                  ELSE CleanElems(rest, Append(out, e), rooted)

\* filepath.Clean(path)
Clean(path) ==
    IF path = <<>> THEN Dot
    ELSE LET rooted == IsAbs(path)
             body == JoinSep(CleanElems(SplitPath(path), <<>>, rooted))
         IN  IF rooted THEN <<Sep>> \o body
             ELSE IF body = <<>> THEN Dot ELSE body

\* filepath.Join(a, b): the first non-empty element onwards, joined with
\* separators and cleaned; "" when both are empty
Join(a, b) ==
    IF a # <<>> THEN Clean(a \o <<Sep>> \o b)
    ELSE IF b # <<>> THEN Clean(b)
         ELSE <<>>

\* filepath.Abs(path) with working directory cwd
Abs(cwd, path) == IF IsAbs(path) THEN Clean(path) ELSE Join(cwd, path)

\* the non-empty elements of a cleaned absolute path
Elems(path) == SelectSeq(SplitPath(path), LAMBDA e : e # <<>>)

\* dest is root or lies below it, element by element
Inside(absRoot, absDest) ==
    LET r == Elems(absRoot)
        d == Elems(absDest)
    IN  Len(r) <= Len(d) /\ SubSeq(d, 1, Len(r)) = r

\* the index of the last occurrence of c in s, 0 when there is none
RECURSIVE LastIndex(_, _, _)
LastIndex(s, c, i) ==
    IF i = 0 THEN 0 ELSE IF s[i] = c THEN i ELSE LastIndex(s, c, i - 1)

\* filepath.Dir(path)
Dir(path) == Clean(SubSeq(path, 1, LastIndex(path, Sep, Len(path))))

\* the absolute path with the elements els
PathOf(els) == <<Sep>> \o JoinSep(els)

\* filepath.Separator on the platforms the guard is written for
Separator == <<Sep>>

\* ------------------------------------------------------------- path guard
\* destPath := filepath.Join(outputPath, name)
DestPath(root, name) == Join(root, name)

\* extractZipFile's check: both paths made absolute, then the destination
\* must be the root or start with root + separator
ZipGuardAccepts(cwd, root, name) ==
    LET absDestPath == Abs(cwd, DestPath(root, name))
        absOutputPath == Abs(cwd, root)
    IN  HasPrefix(absDestPath, absOutputPath \o Separator) \/ absDestPath = absOutputPath

\* extractTarGz's check: a plain string prefix of the cleaned paths
TarGuardAccepts(root, name) ==
    HasPrefix(Clean(DestPath(root, name)), Clean(root))

NoErr == "nil"
ErrIllegalPath == "illegal file path"
ErrIO == "io error"

\* where the operating system puts a file opened under a (cleaned) path
Location(cwd, path) == Abs(cwd, path)

\* the file (OpenFile, Create) made or truncated at destPath
Created(cwd, destPath, kind) == [loc |-> Location(cwd, destPath), kind |-> kind]

\* os.MkdirAll(path): the directories on the way down to path that it makes;
\* the working directory and the directories above it are there already
MadeDirs(cwd, path) ==
    LET els == Elems(Location(cwd, path))
        c == Elems(cwd)
    IN  {[loc |-> PathOf(SubSeq(els, 1, k)), kind |-> "dir"] :
            k \in {j \in 1..Len(els) :
                      ~(j <= Len(c) /\ SubSeq(els, 1, j) = SubSeq(c, 1, j))}}

\* an os.MkdirAll that failed has made the directories down to some depth
MadeDirsUpTo(cwd, path, depth) ==
    {d \in MadeDirs(cwd, path) : Len(Elems(d.loc)) <= depth}

\* the calls of an extractor that can fail once the check has accepted the
\* entry: a directory entry is one MkdirAll; a file entry is MkdirAll of the
\* parent, the opens (f.Open, OpenFile, Create), io.Copy and, for tar.gz, Chmod
Faults(fmt, kind) ==
    IF kind = "dir" THEN {"none", "mkdir"}
    ELSE IF fmt = "zip" THEN {"none", "mkdir", "open", "copy"}
         ELSE {"none", "mkdir", "open", "copy", "chmod"}

\* the working directory and the directories above it are directories:
\* OpenFile and Create for writing fail on them
IsExistingDir(cwd, destPath) ==
    LET els == Elems(Location(cwd, destPath))
        c == Elems(cwd)
    IN  Len(els) <= Len(c) /\ SubSeq(c, 1, Len(els)) = els

\* the outcomes an entry can have at destPath
FaultsAt(fmt, kind, cwd, destPath) ==
    IF kind = "file" /\ IsExistingDir(cwd, destPath)
    THEN {"mkdir", "open"}
    ELSE Faults(fmt, kind)

\* the path the extractor hands to MkdirAll
MkdirPath(destPath, kind) == IF kind = "dir" THEN destPath ELSE Dir(destPath)

\* what exists afterwards when the call named by fail failed ("none": no
\* call failed): the file is there from its open on, also when io.Copy or
\* Chmod failed after it
Creates(cwd, destPath, kind, fail, depth) ==
    LET path == MkdirPath(destPath, kind)
    IN  IF fail = "mkdir" THEN MadeDirsUpTo(cwd, path, depth)
        ELSE IF kind = "dir" \/ fail = "open" THEN MadeDirs(cwd, path)
        ELSE MadeDirs(cwd, path) \cup {Created(cwd, destPath, kind)}

\* the depths at which a MkdirAll of the entry can have stopped
FailDepths(cwd, destPath, kind) ==
    0..(Len(Elems(Location(cwd, MkdirPath(destPath, kind)))) - 1)

ErrInvalidPath == "invalid path"

\* (variant) the destination is created before the check is made
CreatedBeforeCheckEager(c) == {c}

\* what an extractor has created for an entry when its check rejects it:
\* the check is the first statement after the join, nothing precedes it
CreatedBeforeCheck(c) == {}

\* extractZipFile(f, outputPath, opts) for one entry: filepath.Abs of both
\* paths (it asks for the working directory when the path is relative, and
\* that can fail), the guard, then MkdirAll / f.Open / OpenFile / io.Copy on
\* destPath, any of which may fail
ExtractZipFile ==
    /\ gpc = "ready" /\ format = "zip"
    /\ LET destPath == DestPath(outputPath, entryName)
       IN  \/ /\ ~IsAbs(destPath) \/ ~IsAbs(outputPath)
              /\ gerr' = ErrInvalidPath
              /\ written' = written
           \/ /\ ~ZipGuardAccepts(wd, outputPath, entryName)
              /\ gerr' = ErrIllegalPath
              /\ written' = written \cup CreatedBeforeCheck(Created(wd, destPath, entryKind))
           \/ /\ ZipGuardAccepts(wd, outputPath, entryName)
              /\ \E fail \in FaultsAt("zip", entryKind, wd, destPath) :
                  \E depth \in IF fail = "mkdir" THEN FailDepths(wd, destPath, entryKind) ELSE {0} :
                     /\ gerr' = IF fail = "none" THEN NoErr ELSE ErrIO
                     /\ written' = written \cup Creates(wd, destPath, entryKind, fail, depth)
    /\ gpc' = "done"
    /\ UNCHANGED <<format, wd, outputPath, entryName, entryKind>>
    /\ UNCHANGED notGuardVars

\* one iteration of extractTarGz's loop for one entry: the guard, then
\* MkdirAll / Create / io.Copy / Chmod on destPath, any of which may fail
ExtractTarGzEntry ==
    /\ gpc = "ready" /\ format = "tar.gz"
    /\ LET destPath == DestPath(outputPath, entryName)
       IN  \/ /\ ~TarGuardAccepts(outputPath, entryName)
              /\ gerr' = ErrIllegalPath
              /\ written' = written \cup CreatedBeforeCheck(Created(wd, destPath, entryKind))
           \/ /\ TarGuardAccepts(outputPath, entryName)
              /\ \E fail \in FaultsAt("tar.gz", entryKind, wd, destPath) :
                  \E depth \in IF fail = "mkdir" THEN FailDepths(wd, destPath, entryKind) ELSE {0} :
                     /\ gerr' = IF fail = "none" THEN NoErr ELSE ErrIO
                     /\ written' = written \cup Creates(wd, destPath, entryKind, fail, depth)
    /\ gpc' = "done"
    /\ UNCHANGED <<format, wd, outputPath, entryName, entryKind>>
    /\ UNCHANGED notGuardVars

\* inputs of the guard: entry names over a three-letter alphabet, output
\* roots (relative, absolute, ".", "/") and working directories
Chars == {Sep, ".", "a"}
Names == UNION {[1..n -> Chars] : n \in 1..MaxNameLen}
Roots == {<<".">>, <<"a">>, <<Sep, "a">>, <<Sep>>, <<".", Sep, "a">>}
Cwds == {<<Sep>>, <<Sep, "a">>}

GuardIdle ==
    /\ format = "zip" /\ wd = <<Sep>> /\ outputPath = Dot /\ entryName = <<"a">>
    /\ entryKind = "file" /\ gpc = "idle" /\ gerr = NoErr /\ written = {}

NoWriter == [password |-> "", salt |-> "", nonce |-> ""]
NoReader == [password |-> "", key |-> <<"", "">>, nonce |-> ""]
NoWrite == [len |-> 0, n |-> 0]
NoRead == [len |-> 0, n |-> 0, err |-> NoErr, p |-> <<>>]

CryptoIdle ==
    /\ cpc = "idle" /\ ew = NoWriter /\ sink = <<>> /\ seals = <<>> /\ wrote = <<>>
    /\ lastWrite = NoWrite /\ tampered = FALSE /\ er = NoReader /\ rpos = 0
    /\ got = <<>> /\ lastRead = NoRead /\ nreads = 0 /\ nerrs = 0

OpIdle ==
    /\ opc = "idle" /\ tree = [single |-> FALSE, nodes |-> <<>>] /\ password = ""
    /\ level = "normal"
    /\ archivePath = <<>> /\ cerr = NoErr /\ xerr = NoErr /\ outTree = {}
    /\ xin = <<>> /\ listing = <<>> /\ lerr = NoErr /\ lopened = FALSE

ZipIdle ==
    /\ workers = 1 /\ files = <<>> /\ mpc = "idle" /\ next = 1 /\ wg = 0 /\ sem = 0
    /\ errChan = <<>> /\ gor = <<>> /\ stderr = <<>> /\ zerr = NoErr

TarIdle ==
    tpc = "idle" /\ theaders = <<>> /\ tread = 0 /\ tlog = <<>> /\ terr = NoErr

\* the zero CLIArgs
NoArgs ==
    [Action |-> <<>>, Input |-> <<>>, Output |-> <<>>, Format |-> <<>>, Password |-> <<>>,
     Compression |-> <<>>, Workers |-> 0, Verbose |-> FALSE, Version |-> FALSE, Help |-> FALSE]
NoOpts == [Format |-> "zip", Password |-> <<>>, Workers |-> 0, Verbose |-> FALSE,
           CompressionLevel |-> "fastest"]
NoCall == [action |-> "", input |-> <<>>, output |-> <<>>]

NoOp == [kind |-> "compress", format |-> "zip", pw |-> FALSE, single |-> FALSE, n |-> 0,
         workers |-> 1]

FileIdle ==
    /\ fpc = "idle" /\ fop = NoOp /\ fi = 0 /\ ftasks = <<>> /\ fsem = 0
    /\ fopen = {} /\ codefers = <<>>
    /\ fbody = NoErr /\ ferr = NoErr /\ lost = {}

CliIdle ==
    /\ argv = <<>> /\ numCPU = 1 /\ cliArgs = NoArgs /\ perr = NoErr /\ mainpc = "idle"
    /\ opts = NoOpts /\ call = NoCall /\ exitCode = 0

InitGuard ==
    /\ format \in {"zip", "tar.gz"}
    /\ wd \in Cwds
    /\ outputPath \in Roots
    /\ entryName \in Names
    /\ entryKind \in {"file", "dir"}
    /\ gpc = "ready" /\ gerr = NoErr /\ written = {}
    /\ ZipIdle
    /\ CryptoIdle
    /\ OpIdle
    /\ TarIdle
    /\ CliIdle
    /\ FileIdle

NextGuard == ExtractZipFile \/ ExtractTarGzEntry

SpecGuard == InitGuard /\ [][NextGuard]_vars

\* ------------------------------------------------------------- extractZip
ErrOpen == "open error"

\* errChan := make(chan error, 1)
ErrChanCap == 1

Min(a, b) == IF a < b THEN a ELSE b

\* zip.OpenReader(inputPath): the archive opens or extractZip returns the error
OpenReader ==
    /\ mpc = "open"
    /\ \E ok \in BOOLEAN :
          IF ok THEN mpc' = "make" /\ zerr' = zerr
                ELSE mpc' = "returned" /\ zerr' = ErrOpen
    /\ UNCHANGED <<workers, files, next, wg, sem, errChan, gor, stderr, wd, outputPath, written>>
    /\ UNCHANGED notZipVars

\* sem := make(chan struct{}, opts.Workers); errChan := make(chan error, 1)
\* (make panics on a negative size)
MakeChans ==
    /\ mpc = "make"
    /\ mpc' = IF workers < 0 THEN "panic" ELSE "loop"
    /\ UNCHANGED <<workers, files, next, wg, sem, errChan, gor, stderr, zerr, wd, outputPath, written>>
    /\ UNCHANGED notZipVars

\* for _, file := range zipReader.File { wg.Add(1) ...
LoopAdd ==
    /\ mpc = "loop"
    /\ IF next <= Len(files)
       THEN wg' = wg + 1 /\ mpc' = "acquire"
       ELSE wg' = wg /\ mpc' = "wait"
    /\ UNCHANGED <<workers, files, next, sem, errChan, gor, stderr, zerr, wd, outputPath, written>>
    /\ UNCHANGED notZipVars

\* (variant) a semaphore sized by the number of entries
SemCapPerEntry == Len(files)

\* capacity of the sem channel
SemCap == workers

\* sem <- struct{}{}: blocks while the channel is full
Acquire ==
    /\ mpc = "acquire"
    /\ sem < SemCap
    /\ sem' = sem + 1
    /\ mpc' = "go"
    /\ UNCHANGED <<workers, files, next, wg, errChan, gor, stderr, zerr, wd, outputPath, written>>
    /\ UNCHANGED notZipVars

\* go func(f *zip.File) {...}(file): the entry is bound to f at the go statement
Go ==
    /\ mpc = "go"
    /\ gor' = Append(gor, [f |-> next, pc |-> "spawned", e |-> 0, err |-> NoErr])
    /\ next' = next + 1
    /\ mpc' = "loop"
    /\ UNCHANGED <<workers, files, wg, sem, errChan, stderr, zerr, wd, outputPath, written>>
    /\ UNCHANGED notZipVars

\* (variant) the two defers registered in the opposite order
DeferredCallsSwapped == <<"wgdone", "release">>

\* the deferred calls of a goroutine in the order they run, the reverse of
\* their registration: defer wg.Done() first, defer func() { <-sem }() second
DeferredCalls == <<"release", "wgdone">>

AfterDeferred(d) == IF d = DeferredCalls[1] THEN DeferredCalls[2] ELSE "done"

\* (variant) the closure reads the loop variable when it runs instead of
\* receiving the entry as an argument
TaskEntryLoopVar(g) == Min(next, Len(files))

\* the entry a goroutine extracts: its parameter f
TaskEntry(g) == gor[g].f

\* the goroutine calls extractZipFile(f, outputPath, opts), which runs up to
\* the security check on its own arguments: filepath.Abs of the destination
\* and of the output directory (on a relative path it asks for the working
\* directory, and that can fail), then the prefix check
TaskStart(g) ==
    /\ gor[g].pc = "spawned"
    /\ LET e == TaskEntry(g)
       IN  \/ /\ ~IsAbs(DestPath(outputPath, files[e])) \/ ~IsAbs(outputPath)
              /\ gor' = [gor EXCEPT ![g].pc = "report", ![g].e = e, ![g].err = ErrInvalidPath]
           \/ /\ ZipGuardAccepts(wd, outputPath, files[e])
              /\ gor' = [gor EXCEPT ![g].pc = "mkdir", ![g].e = e]
           \/ /\ ~ZipGuardAccepts(wd, outputPath, files[e])
              /\ gor' = [gor EXCEPT ![g].pc = "report", ![g].e = e, ![g].err = ErrIllegalPath]
    /\ UNCHANGED <<workers, files, mpc, next, wg, sem, errChan, stderr, zerr, wd, outputPath, written>>
    /\ UNCHANGED notZipVars

\* the destination of the entry a task extracts
TaskDestPath(g) == DestPath(outputPath, files[gor[g].e])

\* os.MkdirAll(filepath.Dir(destPath), 0755) by a task
TaskMkdir(g) ==
    /\ gor[g].pc = "mkdir"
    /\ \E ok \in BOOLEAN :
          IF ok THEN /\ gor' = [gor EXCEPT ![g].pc = "open"]
                     /\ written' = written \cup
                            {[loc |-> d.loc, kind |-> d.kind, by |-> {}] :
                                d \in MadeDirs(wd, Dir(TaskDestPath(g)))}
                ELSE /\ gor' = [gor EXCEPT ![g].pc = "report", ![g].err = ErrIO]
                     /\ written' = written
    /\ UNCHANGED <<workers, files, mpc, next, wg, sem, errChan, stderr, zerr, wd, outputPath>>
    /\ UNCHANGED notZipVars

\* os.OpenFile(destPath, O_WRONLY|O_CREATE|O_TRUNC): the file at the
\* destination is there and empty, whatever it held
Truncate(fs, c) ==
    {w \in fs : w.loc # c.loc} \cup {[loc |-> c.loc, kind |-> c.kind, by |-> {}]}

\* a write of io.Copy by the task of entry e: bytes of e are in the file
AddBytes(fs, loc, e) ==
    {IF w.loc = loc /\ w.kind = "file" THEN [w EXCEPT !.by = w.by \cup {e}] ELSE w : w \in fs}

\* f.Open() and os.OpenFile by a task
TaskOpen(g) ==
    /\ gor[g].pc = "open"
    /\ \E ok \in BOOLEAN :
          IF ok THEN /\ gor' = [gor EXCEPT ![g].pc = "copy"]
                     /\ written' = Truncate(written, Created(wd, TaskDestPath(g), "file"))
                ELSE /\ gor' = [gor EXCEPT ![g].pc = "report", ![g].err = ErrIO]
                     /\ written' = written
    /\ UNCHANGED <<workers, files, mpc, next, wg, sem, errChan, stderr, zerr, wd, outputPath>>
    /\ UNCHANGED notZipVars

\* io.Copy(outFile, rc) by a task, one write at a time: a write that is not
\* the last, the last write, or a failure (of a read, of a write, or the
\* checksum at the end) that leaves in the file what was written before it
TaskCopy(g) ==
    /\ gor[g].pc = "copy"
    /\ \E step \in {"more", "last", "fail"} :
          IF step = "fail"
          THEN /\ gor' = [gor EXCEPT ![g].pc = "report", ![g].err = ErrIO]
               /\ written' = written
          ELSE /\ gor' = [gor EXCEPT ![g].pc = IF step = "last" THEN DeferredCalls[1] ELSE "copy"]
               /\ written' = AddBytes(written, Location(wd, TaskDestPath(g)), gor[g].e)
    /\ UNCHANGED <<workers, files, mpc, next, wg, sem, errChan, stderr, zerr, wd, outputPath>>
    /\ UNCHANGED notZipVars

\* (variant) a plain send, errChan <- err, without the default case
ErrChanSendBlocking(g) ==
    Len(errChan) < ErrChanCap /\ errChan' = Append(errChan, gor[g].err)

\* (variant) the failure is only printed, never put on errChan
ErrChanSendOmitted(g) == errChan' = errChan

\* select { case errChan <- err: default: }
ErrChanSend(g) ==
    errChan' = IF Len(errChan) < ErrChanCap THEN Append(errChan, gor[g].err) ELSE errChan

TaskReport(g) ==
    /\ gor[g].pc = "report"
    /\ ErrChanSend(g)
    /\ gor' = [gor EXCEPT ![g].pc = "print"]
    /\ UNCHANGED <<workers, files, mpc, next, wg, sem, stderr, zerr, wd, outputPath, written>>
    /\ UNCHANGED notZipVars

\* fmt.Fprintf(os.Stderr, "Error extracting %s: %v\n", f.Name, err)
TaskPrint(g) ==
    /\ gor[g].pc = "print"
    /\ stderr' = Append(stderr, gor[g].e)
    /\ gor' = [gor EXCEPT ![g].pc = DeferredCalls[1]]
    /\ UNCHANGED <<workers, files, mpc, next, wg, sem, errChan, zerr, wd, outputPath, written>>
    /\ UNCHANGED notZipVars

\* deferred: <-sem
TaskRelease(g) ==
    /\ gor[g].pc = "release"
    /\ sem > 0
    /\ sem' = sem - 1
    /\ gor' = [gor EXCEPT ![g].pc = AfterDeferred("release")]
    /\ UNCHANGED <<workers, files, mpc, next, wg, errChan, stderr, zerr, wd, outputPath, written>>
    /\ UNCHANGED notZipVars

\* deferred: wg.Done()
TaskDone(g) ==
    /\ gor[g].pc = "wgdone"
    /\ wg' = wg - 1
    /\ gor' = [gor EXCEPT ![g].pc = AfterDeferred("wgdone")]
    /\ UNCHANGED <<workers, files, mpc, next, sem, errChan, stderr, zerr, wd, outputPath, written>>
    /\ UNCHANGED notZipVars

\* wg.Wait(): blocks until the counter is zero
Wait ==
    /\ mpc = "wait"
    /\ wg = 0
    /\ mpc' = "select"
    /\ UNCHANGED <<workers, files, next, wg, sem, errChan, gor, stderr, zerr, wd, outputPath, written>>
    /\ UNCHANGED notZipVars

\* select { case err := <-errChan: return err; default: return nil }
Return ==
    /\ mpc = "select"
    /\ IF errChan # <<>>
       THEN zerr' = Head(errChan) /\ errChan' = Tail(errChan)
       ELSE zerr' = NoErr /\ errChan' = errChan
    /\ mpc' = "returned"
    /\ UNCHANGED <<workers, files, next, wg, sem, gor, stderr, wd, outputPath, written>>
    /\ UNCHANGED notZipVars

\* archives: every sequence of at most MaxZipEntries names, one of them a
\* traversal name the guard rejects
ZipNames == {<<"a">>, <<".", ".", Sep, "b">>}
Archives == UNION {[1..n -> ZipNames] : n \in 0..MaxZipEntries}

InitZip ==
    /\ workers \in -1..MaxWorkers
    /\ files \in Archives
    /\ mpc = "open" /\ next = 1 /\ wg = 0 /\ sem = 0
    /\ errChan = <<>> /\ gor = <<>> /\ stderr = <<>> /\ zerr = NoErr
    /\ wd = <<Sep>> /\ outputPath = <<"a">> /\ written = {}
    /\ format = "zip" /\ entryName = <<"a">> /\ entryKind = "file"
    /\ gpc = "idle" /\ gerr = NoErr
    /\ CryptoIdle
    /\ OpIdle
    /\ TarIdle
    /\ CliIdle
    /\ FileIdle

NextZip ==
    \/ OpenReader
    \/ MakeChans
    \/ LoopAdd
    \/ Acquire
    \/ Go
    \/ \E g \in 1..Len(gor) : TaskStart(g)
    \/ \E g \in 1..Len(gor) : TaskMkdir(g)
    \/ \E g \in 1..Len(gor) : TaskOpen(g)
    \/ \E g \in 1..Len(gor) : TaskCopy(g)
    \/ \E g \in 1..Len(gor) : TaskReport(g)
    \/ \E g \in 1..Len(gor) : TaskPrint(g)
    \/ \E g \in 1..Len(gor) : TaskRelease(g)
    \/ \E g \in 1..Len(gor) : TaskDone(g)
    \/ Wait
    \/ Return

SpecZip == InitZip /\ [][NextZip]_vars

\* ------------------------------------------------------ extractZip: claims
\* the goroutine has called extractZipFile and has not yet left its body
InFlight(g) ==
    gor[g].pc \in {"mkdir", "open", "copy", "report", "print", "release"}

\* C1: with Workers = k >= 1 the number of extraction tasks that have
\* started and not yet finished never exceeds k.
C1_WorkerBound ==
    workers >= 1 => Cardinality({g \in 1..Len(gor) : InFlight(g)}) <= workers

\* every slot is taken by a running task and the loop waits for one
C1_Witness ==
    /\ workers >= 1 /\ sem = workers
    /\ Cardinality({g \in 1..Len(gor) : InFlight(g)}) = workers
    /\ mpc = "acquire"

\* the entries whose extractZipFile call has been made
Invoked(i) == {g \in 1..Len(gor) : gor[g].e = i}
Failed(g) == gor[g].err # NoErr
AllDone == \A i \in 1..Len(files) : \E g \in 1..Len(gor) : gor[g].f = i /\ gor[g].pc = "done"

\* some step of extractZip or of one of its goroutines can be taken (a
\* goroutine that was started runs up to its security check without blocking)
CanProceed ==
    \/ \E g \in 1..Len(gor) : gor[g].pc = "spawned"
    \/ ENABLED (\/ OpenReader \/ MakeChans \/ LoopAdd \/ Acquire \/ Go \/ Wait \/ Return
                \/ \E g \in 1..Len(gor) :
                      \/ TaskMkdir(g) \/ TaskOpen(g) \/ TaskCopy(g) \/ TaskReport(g)
                      \/ TaskPrint(g) \/ TaskRelease(g) \/ TaskDone(g))

\* C8: exactly one extractZipFile invocation is made per entry of the
\* directory table: never two for one entry, and none missing when
\* extractZip returns after opening the archive.
C8_EachEntryOnce ==
    /\ \A i \in 1..Len(files) : Cardinality(Invoked(i)) <= 1
    /\ (mpc = "returned" /\ zerr # ErrOpen) =>
           \A i \in 1..Len(files) : Cardinality(Invoked(i)) = 1

C8_Witness ==
    /\ mpc = "returned" /\ Len(files) = 2 /\ zerr = ErrIllegalPath
    /\ \A i \in 1..2 : Cardinality(Invoked(i)) = 1

\* C9: a failed task cancels and blocks nobody, however many tasks fail: its
\* report on errChan can always proceed, and once a task has failed the
\* program never comes to a stop before every entry has been started, every
\* task has run to completion and extractZip has returned.
C9_FailureBlocksNobody ==
    /\ \A g \in 1..Len(gor) : gor[g].pc = "report" => ENABLED TaskReport(g)
    /\ (\E g \in 1..Len(gor) : Failed(g)) =>
           (CanProceed \/ (mpc = "returned" /\ AllDone))

C9_Witness ==
    /\ mpc = "returned" /\ AllDone
    /\ Cardinality({g \in 1..Len(gor) : Failed(g)}) >= 2
    /\ workers = 2

\* C10: when extractZip returns, no extractZipFile invocation is running,
\* every goroutine has finished and every semaphore slot is free.
C10_ReturnsAfterAllTasks ==
    mpc = "returned" => (sem = 0 /\ wg = 0 /\ \A g \in 1..Len(gor) : gor[g].pc = "done")

C10_Witness ==
    /\ mpc = "returned" /\ Len(gor) = 2 /\ workers = 1 /\ sem = 0

\* C11: once the archive has been opened, extractZip returns a non-nil error
\* exactly when at least one extraction task failed, and the error returned
\* is the error of one of the failed tasks, whatever the order in which the
\* tasks complete.
C11_ErrorIffTaskFailed ==
    (mpc = "returned" /\ zerr # ErrOpen) =>
        /\ (zerr # NoErr) <=> (\E g \in 1..Len(gor) : Failed(g))
        /\ zerr # NoErr => \E g \in 1..Len(gor) : Failed(g) /\ gor[g].err = zerr

\* two tasks failed with different errors and the one returned is the error
\* of the later entry
C11_Witness ==
    /\ mpc = "returned"
    /\ \E g, h \in 1..Len(gor) :
          /\ gor[g].f < gor[h].f
          /\ gor[g].err = ErrIllegalPath /\ gor[h].err = ErrIO
          /\ zerr = ErrIO

\* the destination a task writes
TaskDest(g) == Location(wd, TaskDestPath(g))

\* the task is between its MkdirAll and the end of its io.Copy
Writing(g) == gor[g].pc \in {"mkdir", "open", "copy"}

\* C24: no two tasks of one extractZip call that run at the same time
\* write the same destination path, duplicate entry names included.
C24_DistinctDestinations ==
    \A g, h \in 1..Len(gor) :
        (g # h /\ Writing(g) /\ Writing(h)) => TaskDest(g) # TaskDest(h)

\* C26: with any entry list extractZip never comes to a stop before it
\* returns, and the dispatch loop is never entered with a semaphore of
\* capacity 0.
C26_ReturnsNoZeroCapacity ==
    /\ mpc \notin {"returned", "panic"} => CanProceed
    /\ mpc \in {"loop", "acquire", "go", "wait", "select"} => workers # 0

\* the last entry, in archive order, extracted to a location
LastEntryAt(loc) ==
    CHOOSE i \in 1..Len(files) :
        /\ Abs(wd, DestPath(outputPath, files[i])) = loc
        /\ \A j \in (i + 1)..Len(files) : Abs(wd, DestPath(outputPath, files[j])) # loc

\* C27: the result of extractZip does not depend on the schedule: when it
\* returns and no task met a fault of the file system (an I/O error, a
\* working directory that cannot be read), every file holds what extracting
\* the entries one after the other in archive order leaves there.
C27_ScheduleIndependent ==
    (mpc = "returned" /\ \A g \in 1..Len(gor) : gor[g].err \notin {ErrIO, ErrInvalidPath}) =>
        \A w \in written : w.kind = "file" => w.by = {LastEntryAt(w.loc)}

\* ------------------------------------------------------------ extractTarGz
ErrGzip == "gzip: invalid header"
ErrTarHeader == "tar: invalid header"

\* gzip.NewReader(reader): the gzip header is read or extractTarGz returns
TarGzipOpen ==
    /\ tpc = "gzip"
    /\ \E ok \in BOOLEAN :
          IF ok THEN tpc' = "next" /\ terr' = terr
                ELSE tpc' = "returned" /\ terr' = ErrGzip
    /\ UNCHANGED <<theaders, tread, tlog, wd, outputPath, written>>
    /\ UNCHANGED notTarVars

\* header, err := tarReader.Next(): io.EOF ends the loop with a nil result,
\* any other error is returned
TarNext ==
    /\ tpc = "next"
    /\ IF tread = Len(theaders)
       THEN tpc' = "returned" /\ terr' = NoErr /\ tread' = tread /\ tlog' = tlog
       ELSE \E ok \in BOOLEAN :
               IF ok THEN /\ tpc' = "entry" /\ tread' = tread + 1
                          /\ terr' = terr /\ tlog' = tlog
                     ELSE /\ tpc' = "returned" /\ terr' = ErrTarHeader
                          /\ tread' = tread
                          /\ tlog' = Append(tlog, [e |-> tread + 1, err |-> ErrTarHeader])
    /\ UNCHANGED <<theaders, wd, outputPath, written>>
    /\ UNCHANGED notTarVars

\* the outcomes the loop body can have for header h once the security check
\* has passed, given what the earlier entries left behind: os.Create fails
\* on a directory, os.MkdirAll fails on a regular file
TarFaults(h, fs) ==
    LET destPath == DestPath(outputPath, h.name)
        loc == Location(wd, destPath)
    IN  IF h.kind = "file" /\ [loc |-> loc, kind |-> "dir"] \in fs THEN {"mkdir", "open"}
        ELSE IF h.kind = "dir" /\ [loc |-> loc, kind |-> "file"] \in fs THEN {"mkdir"}
        ELSE FaultsAt("tar.gz", h.kind, wd, destPath)

\* (variant) the loop goes on to the next header after a failed entry
TarAfterErrorContinue == "next"

\* every failure inside the loop is a return statement
TarAfterError == "returned"

\* the loop body for the header just read: the security check, then
\* MkdirAll (of the directory, or of the parent of the file), Create,
\* io.Copy, Close and Chmod; every failure is a return
TarEntry ==
    /\ tpc = "entry"
    /\ LET h == theaders[tread]
       IN  IF ~TarGuardAccepts(outputPath, h.name)
           THEN /\ terr' = ErrIllegalPath
                /\ tlog' = Append(tlog, [e |-> tread, err |-> ErrIllegalPath])
                /\ tpc' = TarAfterError
                /\ written' = written
           ELSE \E fail \in TarFaults(h, written) :
                \E depth \in IF fail = "mkdir"
                              THEN FailDepths(wd, DestPath(outputPath, h.name), h.kind)
                              ELSE {0} :
                   /\ written' = written \cup
                          Creates(wd, DestPath(outputPath, h.name), h.kind, fail, depth)
                   /\ IF fail = "none"
                      THEN /\ terr' = terr
                           /\ tlog' = Append(tlog, [e |-> tread, err |-> NoErr])
                           /\ tpc' = "next"
                      ELSE /\ terr' = ErrIO
                           /\ tlog' = Append(tlog, [e |-> tread, err |-> ErrIO])
                           /\ tpc' = TarAfterError
    /\ UNCHANGED <<theaders, tread, wd, outputPath>>
    /\ UNCHANGED notTarVars

\* tar streams: at most MaxEntries entries, files and directories, one of
\* the names a traversal name the check rejects under root "a"
TarNames == {<<"a">>, <<"b">>, <<".", ".", Sep, "b">>}
TarStreams ==
    UNION {[1..n -> [name : TarNames, kind : {"file", "dir"}]] : n \in 0..MaxEntries}

InitTar ==
    /\ tpc = "gzip" /\ theaders \in TarStreams /\ tread = 0 /\ tlog = <<>> /\ terr = NoErr
    /\ wd = <<Sep>> /\ outputPath = <<"a">> /\ written = {}
    /\ format = "tar.gz" /\ entryName = <<"a">> /\ entryKind = "file"
    /\ gpc = "idle" /\ gerr = NoErr
    /\ ZipIdle
    /\ CryptoIdle
    /\ OpIdle
    /\ CliIdle
    /\ FileIdle

NextTar == TarGzipOpen \/ TarNext \/ TarEntry

SpecTar == InitTar /\ [][NextTar]_vars

\* ---------------------------------------------------- extractTarGz: claims
\* what processing the entries 1..k of the stream can create: the
\* destinations of the entries the check accepts and the directories
\* MkdirAll makes on the way to them
TarCreatedUpTo(k) ==
    UNION {Creates(wd, DestPath(outputPath, theaders[j].name), theaders[j].kind, "none", 0) :
              j \in {i \in 1..k : TarGuardAccepts(outputPath, theaders[i].name)}}

\* C12: sequential extraction aborts on the first entry error: an iteration
\* that fails (header read, guard, mkdir, create, copy, chmod) is the last
\* one, extractTarGz returns its error, no later header is read and nothing
\* of a later entry is written.
C12_AbortsOnFirstError ==
    \A i \in 1..Len(tlog) :
        tlog[i].err # NoErr =>
            /\ i = Len(tlog)
            /\ tpc = "returned" /\ terr = tlog[i].err
            /\ tread <= tlog[i].e
            /\ written \subseteq TarCreatedUpTo(IF tlog[i].err = ErrTarHeader
                                                 THEN tlog[i].e - 1 ELSE tlog[i].e)

\* the first entry was extracted, the second failed, a third was never read
C12_Witness ==
    /\ tpc = "returned" /\ Len(theaders) = 3 /\ Len(tlog) = 2
    /\ tlog[1].err = NoErr /\ tlog[2].err # NoErr
    /\ theaders[3].name = <<"b">> /\ theaders[1].name = <<"a">> /\ theaders[2].name # <<"b">>
    /\ written # {}
    /\ \A g \in 1..Len(gor) : gor[g].pc = "done"

\* ------------------------------------------------------- encrypted stream
\* Bytes of the stream are records: a byte of the salt or of the nonce, a
\* ciphertext byte (AES-CTR of one plaintext byte under a key and a nonce at
\* a position) or a byte of the GCM tag of a sealed message.  gcm.Open
\* accepts exactly the byte strings gcm.Seal produces under the same key and
\* nonce.
SaltSize == 32
NonceSize == 12
Overhead == 16

Item(kind, key, nonce, idx, b, over) ==
    [kind |-> kind, key |-> key, nonce |-> nonce, idx |-> idx, b |-> b, over |-> over]

NoKey == <<"", "">>

\* pbkdf2.Key([]byte(password), salt, 100000, 32, sha256.New)
Key(pw, salt) == <<pw, salt>>

SaltBytes(salt) == [i \in 1..SaltSize |-> Item("salt", NoKey, "", i, salt, <<>>)]
NonceBytes(nonce) == [i \in 1..NonceSize |-> Item("nonce", NoKey, "", i, nonce, <<>>)]

\* the value a run of header bytes stands for; any damaged run is some
\* other value
HeaderValue(bytes, kind) ==
    IF \A i \in 1..Len(bytes) :
          bytes[i].kind = kind /\ bytes[i].idx = i /\ bytes[i].b = bytes[1].b
    THEN bytes[1].b
    ELSE "damaged"

\* gcm.Seal(nil, nonce, p, nil): len(p) ciphertext bytes and the tag
Seal(key, nonce, p) ==
    [i \in 1..Len(p) |-> Item("ct", key, nonce, i, p[i], <<>>)]
        \o [j \in 1..Overhead |-> Item("tag", key, nonce, j, "", p)]

\* the CTR decryption of a run of ciphertext bytes
Decrypt(body) == [i \in 1..Len(body) |-> body[i].b]

\* gcm.Open(nil, nonce, s, nil): the plaintext, or an error when s is not a
\* message sealed under key and nonce
Open(key, nonce, s) ==
    IF Len(s) < Overhead THEN [ok |-> FALSE, plain |-> <<>>]
    ELSE LET body == SubSeq(s, 1, Len(s) - Overhead)
             tag == SubSeq(s, Len(s) - Overhead + 1, Len(s))
             plain == Decrypt(body)
         IN  IF /\ \A i \in 1..Len(body) :
                      /\ body[i].kind = "ct" /\ body[i].idx = i
                      /\ body[i].key = key /\ body[i].nonce = nonce
                /\ \A j \in 1..Overhead :
                      /\ tag[j].kind = "tag" /\ tag[j].idx = j
                      /\ tag[j].key = key /\ tag[j].nonce = nonce
                      /\ tag[j].over = plain
             THEN [ok |-> TRUE, plain |-> plain]
             ELSE [ok |-> FALSE, plain |-> <<>>]

ErrDecrypt == "decryption failed"
ErrHeader == "unexpected EOF"

Passwords == {"p", "q"}
Salts == {"s1"}
Nonces == {"n1", "n2"}
Bytes == {"x", "y"}
\* the buffers handed to Write: runs of one byte value, 1..MaxChunk long
Chunks == {[i \in 1..n |-> b] : n \in 1..MaxChunk, b \in Bytes}
ReadLens == 1..MaxReadLen

\* (variant) the nonce is written in front of the salt
HeaderNonceFirst(salt, nonce) == NonceBytes(nonce) \o SaltBytes(salt)

\* w.Write(salt), then w.Write(nonce)
Header(salt, nonce) == SaltBytes(salt) \o NonceBytes(nonce)

\* NewEncryptedWriter(w, password): random salt and nonce, written to w
NewEncryptedWriter ==
    /\ cpc = "new"
    /\ \E pw \in Passwords, salt \in Salts, nonce \in Nonces :
          /\ ew' = [password |-> pw, salt |-> salt, nonce |-> nonce]
          /\ sink' = sink \o Header(salt, nonce)
    /\ cpc' = "writing"
    /\ UNCHANGED <<seals, wrote, lastWrite, tampered, er, rpos, got, lastRead, nreads, nerrs>>
    /\ UNCHANGED notCryptoVars

\* the nonce a Write seals with: the one nonce of the writer
WriteNonce == ew.nonce

\* the n a Write returns: what the underlying writer reports for the
\* sealed bytes
WriteResult(p, encrypted) == Len(encrypted)

\* EncryptedWriter.Write(p)
Write ==
    /\ cpc = "writing"
    /\ Len(wrote) < MaxWrites
    /\ \E p \in Chunks :
          LET key == Key(ew.password, ew.salt)
              encrypted == Seal(key, WriteNonce, p)
          IN  /\ seals' = Append(seals, <<key, WriteNonce>>)
              /\ sink' = sink \o encrypted
              /\ wrote' = Append(wrote, p)
              /\ lastWrite' = [len |-> Len(p), n |-> WriteResult(p, encrypted)]
    /\ UNCHANGED <<cpc, ew, tampered, er, rpos, got, lastRead, nreads, nerrs>>
    /\ UNCHANGED notCryptoVars

\* the producer stops writing; the stream is complete
Finish ==
    /\ cpc = "writing"
    /\ cpc' = "written"
    /\ UNCHANGED <<ew, sink, seals, wrote, lastWrite, tampered, er, rpos, got, lastRead, nreads, nerrs>>
    /\ UNCHANGED notCryptoVars

\* somebody else changes one byte of the stored stream: in the salt, in the
\* first ciphertext byte or in the last byte of the stream
TamperAt == {1, SaltSize + NonceSize + 1, Len(sink)}

Tamper ==
    /\ cpc = "written" /\ ~tampered
    /\ \E i \in TamperAt \cap (1..Len(sink)) :
          sink' = [sink EXCEPT ![i] = Item("junk", NoKey, "", i, "", <<>>)]
    /\ tampered' = TRUE
    /\ UNCHANGED <<cpc, ew, seals, wrote, lastWrite, er, rpos, got, lastRead, nreads, nerrs>>
    /\ UNCHANGED notCryptoVars

\* NewEncryptedReader(r, password): io.ReadFull of the salt, the key, then
\* io.ReadFull of the nonce
NewEncryptedReader ==
    /\ cpc = "written"
    /\ \E pw \in Passwords :
          IF Len(sink) < SaltSize + NonceSize
          THEN /\ cpc' = "failed"
               /\ lastRead' = [lastRead EXCEPT !.err = ErrHeader]
               /\ UNCHANGED <<er, rpos>>
          ELSE LET salt == HeaderValue(SubSeq(sink, 1, SaltSize), "salt")
                   nonce == HeaderValue(SubSeq(sink, SaltSize + 1, SaltSize + NonceSize), "nonce")
               IN  /\ er' = [password |-> pw, key |-> Key(pw, salt), nonce |-> nonce]
                   /\ rpos' = SaltSize + NonceSize
                   /\ cpc' = "reading"
                   /\ UNCHANGED lastRead
    /\ UNCHANGED <<ew, sink, seals, wrote, lastWrite, tampered, got, nreads, nerrs>>
    /\ UNCHANGED notCryptoVars

\* the caller's buffer of length len before a Read: bytes of its own
Blank(len) == [i \in 1..len |-> "_"]

\* copy(p, decrypted)
Copy(p, decrypted) ==
    [i \in 1..Len(p) |-> IF i <= Len(decrypted) THEN decrypted[i] ELSE p[i]]

\* (variant) the decrypted bytes are copied out before the tag is checked
BufferOnFailureCopied(p, s) == Copy(p, Decrypt(s))

\* the caller's buffer after a Read whose gcm.Open failed on the bytes s
BufferOnFailure(p, s) == p

\* EncryptedReader.Read(p): one Read of the underlying file into a buffer of
\* len(p)+Overhead bytes, gcm.Open of what was read, copy into p
Read ==
    /\ cpc = "reading"
    /\ nreads < MaxReads
    /\ \E len \in ReadLens :
          LET p == Blank(len)
              n == Min(len + Overhead, Len(sink) - rpos)
              encrypted == SubSeq(sink, rpos + 1, rpos + n)
              opened == Open(er.key, er.nonce, encrypted)
          IN  /\ rpos' = rpos + n
              /\ IF opened.ok
                 THEN /\ lastRead' = [len |-> len, n |-> Len(opened.plain), err |-> NoErr,
                                      p |-> Copy(p, opened.plain)]
                      /\ got' = got \o opened.plain
                      /\ nerrs' = nerrs
                 ELSE /\ lastRead' = [len |-> len, n |-> 0, err |-> ErrDecrypt,
                                      p |-> BufferOnFailure(p, encrypted)]
                      /\ got' = got
                      /\ nerrs' = nerrs + 1
    /\ nreads' = nreads + 1
    /\ UNCHANGED <<cpc, ew, sink, seals, wrote, lastWrite, tampered, er>>
    /\ UNCHANGED notCryptoVars

InitCrypto ==
    /\ cpc = "new" /\ ew = NoWriter /\ sink = <<>> /\ seals = <<>> /\ wrote = <<>>
    /\ lastWrite = NoWrite /\ tampered = FALSE /\ er = NoReader /\ rpos = 0
    /\ got = <<>> /\ lastRead = NoRead /\ nreads = 0 /\ nerrs = 0
    /\ GuardIdle
    /\ ZipIdle
    /\ OpIdle
    /\ TarIdle
    /\ CliIdle
    /\ FileIdle

NextCrypto ==
    \/ NewEncryptedWriter
    \/ Write
    \/ Finish
    \/ Tamper
    \/ NewEncryptedReader
    \/ Read

SpecCrypto == InitCrypto /\ [][NextCrypto]_vars

\* ---------------------------------------------------------------- Operator
\* The container formats are the work of archive/zip, archive/tar and
\* compress/gzip.  A container is a sequence of units: one per entry, then
\* the zip central directory; or the gzip header, one unit per tar entry,
\* then the tar end marker with the gzip trailer.
BufioSize == 4096

Raw(idx, tag, payload) == Item("raw", NoKey, "", idx, tag, payload)

Node(name, kind, data) == [name |-> name, kind |-> kind, data |-> data]

ExtZip == <<".", "z", "i", "p">>
ExtTarGz == <<".", "t", "a", "r", ".", "g", "z">>

\* GetExtension(format)
GetExtension(fmt) == IF fmt = "tar.gz" THEN ExtTarGz ELSE ExtZip

\* filepath.Ext(path): from the last dot of the last element on
Ext(path) ==
    LET dot == LastIndex(path, ".", Len(path))
        sep == LastIndex(path, Sep, Len(path))
    IN  IF dot > sep THEN SubSeq(path, dot, Len(path)) ELSE <<>>

\* filepath.Base(path) of a path without a trailing separator
Base(path) == SubSeq(path, LastIndex(path, Sep, Len(path)) + 1, Len(path))

\* header.Name of compressZip: the slash-separated relative path, with a
\* trailing slash for a directory; the base name for a single file
ZipHeaderName(t, node) ==
    IF t.single THEN node.name
    ELSE IF node.kind = "dir" THEN node.name \o <<Sep>> ELSE node.name

\* the compressor compressZip uses for method Deflate: the package's own,
\* or the gzip writer it registers for the levels fastest and best
Compressor(lvl) == IF lvl \in {"fastest", "best"} THEN "gzip" ELSE "deflate"

\* what compressZip hands to its writer: one unit per entry, then the
\* central directory of the deferred Close.  A file entry has method
\* Deflate and holds what the compressor wrote ("zipgz": a gzip member); a
\* directory entry has no data
CompressZip(t, lvl) ==
    [i \in 1..Len(t.nodes) |->
        Raw(i, IF t.nodes[i].kind = "file" /\ Compressor(lvl) = "gzip" THEN "zipgz" ELSE "zip",
            <<Node(ZipHeaderName(t, t.nodes[i]), t.nodes[i].kind, t.nodes[i].data)>>)]
        \o <<Raw(Len(t.nodes) + 1, "zipcd", <<>>)>>

\* what compressTarGz hands to its writer: the gzip header, the entries,
\* and the end of the tar and gzip streams of the deferred Close calls
CompressTarGz(t) ==
    <<Raw(1, "gzhdr", <<>>)>>
        \o [i \in 1..Len(t.nodes) |-> Raw(i + 1, "tar", <<t.nodes[i]>>)]
        \o <<Raw(Len(t.nodes) + 2, "gztrl", <<>>)>>

\* a byte string cut into the Write calls that deliver it, after the
\* positions in cuts
RECURSIVE Chunked(_, _, _, _)
Chunked(bytes, cuts, i, cur) ==
    IF i > Len(bytes) THEN (IF cur = <<>> THEN <<>> ELSE <<cur>>)
    ELSE LET c == Append(cur, bytes[i])
         IN  IF i \in cuts THEN <<c>> \o Chunked(bytes, cuts, i + 1, <<>>)
             ELSE Chunked(bytes, cuts, i + 1, c)

\* the Write calls a codec may make for a container: zip.Writer flushes its
\* bufio.Writer when it fills and on Close; gzip.Writer writes its header,
\* the deflate blocks and its trailer in separate calls
WriteCuts(fmt, bytes) ==
    IF fmt = "tar.gz"
    THEN {c \cup {1, Len(bytes) - 1} : c \in SUBSET (2..(Len(bytes) - 2))}
    ELSE SUBSET (1..(Len(bytes) - 1))

\* the bytes the output file receives for the Write calls in chunks: sealed
\* by the EncryptedWriter when there is one, as they are otherwise
RECURSIVE WriteAll(_, _, _, _)
WriteAll(chunks, sealed, key, nonce) ==
    IF chunks = <<>> THEN <<>>
    ELSE (IF sealed THEN Seal(key, nonce, Head(chunks)) ELSE Head(chunks))
             \o WriteAll(Tail(chunks), sealed, key, nonce)

\* (variant) the encryption layer is inserted whatever the password
EncryptsAlways(pw) == TRUE

\* if op.opts.Password != "": the stream is wrapped by the encryption layer
Encrypts(pw) == pw # ""

\* Operator.Compress(inputPath, outputPath)
Compress ==
    /\ opc = "start"
    /\ \E salt \in Salts, nonce \in Nonces :
       LET bytes == IF format = "zip" THEN CompressZip(tree, level) ELSE CompressTarGz(tree)
           key == Key(password, salt)
       IN  \E cuts \in WriteCuts(format, bytes) :
              LET chunks == Chunked(bytes, cuts, 1, <<>>)
              IN  /\ ew' = IF Encrypts(password)
                           THEN [password |-> password, salt |-> salt, nonce |-> nonce]
                           ELSE NoWriter
                  /\ sink' = (IF Encrypts(password) THEN Header(salt, nonce)
                                ELSE <<>>)
                                \o WriteAll(chunks, Encrypts(password), key, nonce)
                  /\ wrote' = chunks
                  /\ seals' = IF Encrypts(password) THEN [i \in 1..Len(chunks) |-> <<key, nonce>>]
                              ELSE <<>>
    /\ cerr' = NoErr
    /\ opc' = "compressed"
    /\ UNCHANGED <<format, wd, outputPath, tree, level, password, archivePath, xerr, outTree, er,
                   xin, listing, lerr, lopened>>
    /\ UNCHANGED notOpVars

\* the successive Reads a bufio.Reader makes on the EncryptedReader from
\* position pos of the file: the plaintext obtained before the first error
RECURSIVE ReadStream(_, _, _, _, _)
ReadStream(file, pos, key, nonce, acc) ==
    LET n == Min(BufioSize + Overhead, Len(file) - pos)
        opened == Open(key, nonce, SubSeq(file, pos + 1, pos + n))
    IN  IF opened.ok THEN ReadStream(file, pos + n, key, nonce, acc \o opened.plain)
        ELSE [data |-> acc, err |-> ErrDecrypt]

\* the absolute path made of the elements els
\* os.MkdirAll(loc): loc and every directory above it exist afterwards
MkdirAll(loc) ==
    {[loc |-> PathOf(SubSeq(Elems(loc), 1, k)), kind |-> "dir", data |-> <<>>] :
        k \in 1..Len(Elems(loc))}

\* what extracting one accepted entry creates below destPath
EntryNodes(e) ==
    LET destPath == DestPath(outputPath, e.name)
    IN  IF e.kind = "dir" THEN MkdirAll(Location(wd, destPath))
        ELSE MkdirAll(Location(wd, Dir(destPath)))
                \cup {[loc |-> Location(wd, destPath), kind |-> "file", data |-> e.data]}

\* zip.OpenReader(inputPath) on the bytes of the file: the entries of the
\* central directory, or an error when the file is not a zip container;
\* inflating an entry that holds a gzip member fails
ZipOpen(file) ==
    IF /\ file # <<>>
       /\ \A i \in 1..Len(file) : file[i].kind = "raw"
       /\ file[Len(file)].b = "zipcd"
       /\ \A i \in 1..(Len(file) - 1) : file[i].b \in {"zip", "zipgz"}
    THEN [err |-> NoErr, entries |-> [i \in 1..(Len(file) - 1) |-> file[i].over[1]],
          corrupt |-> {i \in 1..(Len(file) - 1) : file[i].b = "zipgz"}]
    ELSE [err |-> ErrOpen, entries |-> <<>>, corrupt |-> {}]

ErrFlate == "flate: corrupt input"

\* extractZip(inputPath, outputPath, opts) on a filesystem without faults:
\* every entry is extracted on its own; a rejected entry leaves its error,
\* an entry that cannot be inflated leaves its error and the empty file
\* OpenFile made.  errs: the errors of the tasks, any of which extractZip
\* may return
ExtractZipAll(file) ==
    LET z == ZipOpen(file)
        ok == {i \in 1..Len(z.entries) : ZipGuardAccepts(wd, outputPath, z.entries[i].name)}
        bad == ok \cap z.corrupt
    IN  IF z.err # NoErr THEN [errs |-> {z.err}, nodes |-> {}]
        ELSE [errs |-> (IF ok = 1..Len(z.entries) THEN {} ELSE {ErrIllegalPath})
                          \cup (IF bad = {} THEN {} ELSE {ErrFlate}),
              nodes |-> UNION ({EntryNodes(z.entries[i]) : i \in ok \ bad}
                          \cup {EntryNodes(Node(z.entries[i].name, "file", <<>>)) : i \in bad})]

ErrEOF == "unexpected EOF"

\* the loop of extractTarGz over the entries it can read, in stream order:
\* it stops at the first entry the check rejects
RECURSIVE TarLoop(_, _)
TarLoop(entries, nodes) ==
    IF entries = <<>> THEN [err |-> NoErr, nodes |-> nodes]
    ELSE IF ~TarGuardAccepts(outputPath, Head(entries).name)
         THEN [err |-> ErrIllegalPath, nodes |-> nodes]
         ELSE TarLoop(Tail(entries), nodes \cup EntryNodes(Head(entries)))

\* the number of leading tar entries of a gzip body
RECURSIVE TarCount(_, _)
TarCount(data, i) ==
    IF i <= Len(data) /\ data[i].kind = "raw" /\ data[i].b = "tar"
    THEN TarCount(data, i + 1) ELSE i - 2

\* extractTarGz(reader, outputPath, opts) on the plaintext data the reader
\* yields before it reports rerr (no error: the end of the file)
ExtractTarGzAll(data, rerr) ==
    IF data = <<>> THEN [err |-> IF rerr = NoErr THEN ErrEOF ELSE rerr, nodes |-> {}]
    ELSE IF ~(data[1].kind = "raw" /\ data[1].b = "gzhdr") THEN [err |-> ErrGzip, nodes |-> {}]
    ELSE LET k == TarCount(data, 2)
             entries == [i \in 1..k |-> data[i + 1].over[1]]
             done == TarLoop(entries, {})
             complete == k + 2 <= Len(data) /\ data[k + 2].kind = "raw" /\ data[k + 2].b = "gztrl"
         IN  IF done.err # NoErr \/ complete THEN done
             ELSE [err |-> IF rerr = NoErr THEN ErrEOF ELSE rerr, nodes |-> done.nodes]

\* strings.ToLower on ASCII letters
UpperCase == <<"A", "B", "C", "D", "E", "F", "G", "H", "I", "J", "K", "L", "M",
               "N", "O", "P", "Q", "R", "S", "T", "U", "V", "W", "X", "Y", "Z">>
LowerCase == <<"a", "b", "c", "d", "e", "f", "g", "h", "i", "j", "k", "l", "m",
               "n", "o", "p", "q", "r", "s", "t", "u", "v", "w", "x", "y", "z">>
ToLower(str) ==
    [i \in 1..Len(str) |->
        IF \E k \in 1..26 : UpperCase[k] = str[i]
        THEN LowerCase[CHOOSE k \in 1..26 : UpperCase[k] = str[i]]
        ELSE str[i]]

\* the format Extract picks for an archive path: ext == ".gz" or anything else
IsGzPath(path) == ToLower(Ext(path)) = <<".", "g", "z">>

\* Operator.Extract(inputPath, outputPath)
Extract ==
    /\ opc = "compressed"
    /\ LET hdr == SaltSize + NonceSize
           short == Encrypts(password) /\ Len(sink) < hdr
           key == Key(password, HeaderValue(SubSeq(sink, 1, SaltSize), "salt"))
           nonce == HeaderValue(SubSeq(sink, SaltSize + 1, hdr), "nonce")
           stream == IF Encrypts(password) THEN ReadStream(sink, hdr, key, nonce, <<>>)
                     ELSE [data |-> sink, err |-> NoErr]
           tar == ExtractTarGzAll(stream.data, stream.err)
           zip == ExtractZipAll(sink)
           res == IF IsGzPath(archivePath) THEN [errs |-> {tar.err} \ {NoErr}, nodes |-> tar.nodes]
                  ELSE zip
       IN  IF short
           THEN xerr' = ErrHeader /\ outTree' = outTree /\ er' = er /\ xin' = xin
           ELSE /\ xerr' \in IF res.errs = {} THEN {NoErr} ELSE res.errs
                /\ outTree' = outTree \cup res.nodes
                /\ er' = IF Encrypts(password)
                         THEN [password |-> password, key |-> key, nonce |-> nonce]
                         ELSE er
                /\ xin' = IF IsGzPath(archivePath) THEN stream.data ELSE sink
    /\ opc' = "extracted"
    /\ UNCHANGED <<format, wd, outputPath, tree, level, password, archivePath, cerr, ew, sink, seals, wrote,
                   listing, lerr, lopened>>
    /\ UNCHANGED notOpVars

ErrUnsupported == "unsupported archive format"

\* the line List prints for an entry: its name and its uncompressed size
ListLine(e) == [name |-> e.name, size |-> Len(e.data)]

\* listZip(inputPath): one line per entry of the central directory
ListZip(file) ==
    LET z == ZipOpen(file)
    IN  [err |-> z.err, lines |-> [i \in 1..Len(z.entries) |-> ListLine(z.entries[i])]]

\* listTarGz(inputPath): one line per header read from the file, up to the
\* end of the stream or the first error
ListTarGz(file) ==
    IF file = <<>> THEN [err |-> ErrEOF, lines |-> <<>>]
    ELSE IF ~(file[1].kind = "raw" /\ file[1].b = "gzhdr") THEN [err |-> ErrGzip, lines |-> <<>>]
    ELSE LET k == TarCount(file, 2)
             complete == k + 2 <= Len(file) /\ file[k + 2].kind = "raw" /\ file[k + 2].b = "gztrl"
         IN  [err |-> IF complete THEN NoErr ELSE ErrEOF,
              lines |-> [i \in 1..k |-> ListLine(file[i + 1].over[1])]]

\* the decoder List picks: ".zip", ".gz", or none
ListFormat(path) ==
    LET ext == ToLower(Ext(path))
    IN  IF ext = <<".", "z", "i", "p">> THEN "zip"
        ELSE IF ext = <<".", "g", "z">> THEN "tar.gz"
        ELSE "unsupported"

\* Operator.List(inputPath)
List ==
    /\ opc = "compressed"
    /\ LET fmt == ListFormat(archivePath)
           res == IF fmt = "zip" THEN ListZip(sink) ELSE ListTarGz(sink)
       IN  IF fmt = "unsupported"
           THEN lerr' = ErrUnsupported /\ listing' = listing /\ lopened' = lopened
           ELSE lerr' = res.err /\ listing' = listing \o res.lines /\ lopened' = TRUE
    /\ opc' = "listed"
    /\ UNCHANGED <<format, wd, outputPath, tree, level, password, archivePath, cerr, xerr, outTree, xin,
                   ew, sink, seals, wrote, er>>
    /\ UNCHANGED notOpVars

\* the file names an archive of a format is given: the default extension
\* of GetExtension, or an output name chosen by the user
ExtTgz == <<".", "t", "g", "z">>
ExtZipUpper == <<".", "Z", "I", "P">>
ArchiveExts(fmt) == IF fmt = "tar.gz" THEN {ExtTarGz, ExtTgz} ELSE {ExtZip, ExtZipUpper}

\* input trees in filepath.Walk order: a directory with or without a file
\* a, a subdirectory d and a file d/a; or a single file a
RootNode == Node(Dot, "dir", <<>>)
FileA(b) == Node(<<"a">>, "file", <<b>>)
DirD == Node(<<"d">>, "dir", <<>>)
FileDA(b) == Node(<<"d", Sep, "a">>, "file", <<b>>)

Trees ==
    {[single |-> TRUE, nodes |-> <<FileA(b)>>] : b \in Bytes}
    \cup {[single |-> FALSE, nodes |-> <<RootNode>> \o fa \o fd] :
            fa \in {<<>>} \cup {<<FileA(b)>> : b \in Bytes},
            fd \in {<<>>, <<DirD>>} \cup {<<DirD, FileDA(b)>> : b \in Bytes}}

InputPath(t) == IF t.single THEN <<"a">> ELSE <<"i">>

InitOp ==
    /\ opc = "start"
    /\ tree \in Trees
    /\ format \in {"zip", "tar.gz"}
    /\ level \in {"fastest", "normal", "best"}
    /\ password \in {"", "p"}
    /\ archivePath \in {InputPath(tree) \o ext : ext \in ArchiveExts(format)}
    /\ wd = <<Sep, "w">> /\ outputPath \in {Dot, <<"o">>}
    /\ cerr = NoErr /\ xerr = NoErr /\ outTree = {}
    /\ xin = <<>> /\ listing = <<>> /\ lerr = NoErr /\ lopened = FALSE
    /\ ew = NoWriter /\ sink = <<>> /\ seals = <<>> /\ wrote = <<>> /\ er = NoReader
    /\ cpc = "idle" /\ lastWrite = NoWrite /\ tampered = FALSE /\ rpos = 0
    /\ got = <<>> /\ lastRead = NoRead /\ nreads = 0 /\ nerrs = 0
    /\ entryName = <<"a">> /\ entryKind = "file" /\ gpc = "idle" /\ gerr = NoErr
    /\ written = {}
    /\ ZipIdle
    /\ TarIdle
    /\ CliIdle
    /\ FileIdle

NextOp == Compress \/ Extract \/ List

SpecOp == InitOp /\ [][NextOp]_vars

\* ------------------------------------------------------------ command line
\* flag names and values, character by character
N_action == <<"a", "c", "t", "i", "o", "n">>
N_input == <<"i", "n", "p", "u", "t">>
N_output == <<"o", "u", "t", "p", "u", "t">>
N_format == <<"f", "o", "r", "m", "a", "t">>
N_password == <<"p", "a", "s", "s", "w", "o", "r", "d">>
N_compression == <<"c", "o", "m", "p", "r", "e", "s", "s", "i", "o", "n">>
N_workers == <<"w", "o", "r", "k", "e", "r", "s">>
N_verbose == <<"v", "e", "r", "b", "o", "s", "e">>
N_version == <<"v", "e", "r", "s", "i", "o", "n">>
N_help == <<"h", "e", "l", "p">>

S_compress == <<"c", "o", "m", "p", "r", "e", "s", "s">>
S_extract == <<"e", "x", "t", "r", "a", "c", "t">>
S_list == <<"l", "i", "s", "t">>
S_zip == <<"z", "i", "p">>
S_targz == <<"t", "a", "r", ".", "g", "z">>
S_tgz == <<"t", "g", "z">>
S_bzip2 == <<"b", "z", "i", "p", "2">>
S_7zip == <<"7", "z", "i", "p">>
S_normal == <<"n", "o", "r", "m", "a", "l">>
S_fastest == <<"f", "a", "s", "t", "e", "s", "t">>
S_best == <<"b", "e", "s", "t">>

\* the flags Parse defines on its FlagSet, by type
StringFlags == {N_action, N_input, N_output, N_format, N_password, N_compression}
IntFlags == {N_workers}
BoolFlags == {N_verbose, N_version, N_help}
                 \cup {<<ch>> : ch \in {"h", "c", "x", "t", "v", "f", "z", "j", "Z"}}

ErrFlag == "flag error"

\* the flag values before parsing: the defaults Parse declares
FlagDefaults(ncpu) ==
    [strs |-> [n \in StringFlags |->
                  IF n = N_format THEN S_zip ELSE IF n = N_compression THEN S_normal ELSE <<>>],
     workers |-> ncpu,
     bools |-> [n \in BoolFlags |-> FALSE],
     err |-> NoErr,
     rest |-> <<>>]

\* processUnixStyleFlags: an argument is a combined flag when it starts with
\* one dash, is longer than two characters, has only characters of
\* "cvxtfjzZ" after the dash and at least one of c, x, t
IsCombinedFlag(arg) ==
    /\ Len(arg) > 2
    /\ arg[1] = "-" /\ arg[2] # "-"
    /\ \A i \in 2..Len(arg) : arg[i] \in {"c", "v", "x", "t", "f", "j", "z", "Z"}
    /\ \E i \in 2..Len(arg) : arg[i] \in {"c", "x", "t"}

\* -cvf becomes -c -v -f
ExpandFlag(arg) == [i \in 1..(Len(arg) - 1) |-> <<"-", arg[i + 1]>>]

RECURSIVE ProcessUnixStyleFlags(_)
ProcessUnixStyleFlags(args) ==
    IF args = <<>> THEN <<>>
    ELSE (IF IsCombinedFlag(Head(args)) THEN ExpandFlag(Head(args)) ELSE <<Head(args)>>)
             \o ProcessUnixStyleFlags(Tail(args))

\* the index of the first occurrence of c in s from position i on, 0 if none
RECURSIVE FirstIndex(_, _, _)
FirstIndex(s, c, i) ==
    IF i > Len(s) THEN 0 ELSE IF s[i] = c THEN i ELSE FirstIndex(s, c, i + 1)

\* strconv.ParseBool
TrueLiterals == {<<"1">>, <<"t">>, <<"T">>, <<"t", "r", "u", "e">>, <<"T", "R", "U", "E">>,
                 <<"T", "r", "u", "e">>}
FalseLiterals == {<<"0">>, <<"f">>, <<"F">>, <<"f", "a", "l", "s", "e">>,
                  <<"F", "A", "L", "S", "E">>, <<"F", "a", "l", "s", "e">>}

\* strconv.ParseInt(s, 0, 64), as flag.IntVar calls it: an optional sign, a
\* base prefix (0b, 0o, 0x, or a leading 0 for octal), digits of that base
\* with underscores between them, and a magnitude that fits 64 bits
Digits == <<"0", "1", "2", "3", "4", "5", "6", "7", "8", "9">>

\* the value of a digit character, 36 for a character that is no digit
DigitValue(c) ==
    IF \E k \in 1..10 : Digits[k] = c THEN (CHOOSE k \in 1..10 : Digits[k] = c) - 1
    ELSE IF \E k \in 1..26 : LowerCase[k] = c \/ UpperCase[k] = c
         THEN 9 + (CHOOSE k \in 1..26 : LowerCase[k] = c \/ UpperCase[k] = c)
         ELSE 36

Unsigned(str) == IF str # <<>> /\ str[1] \in {"-", "+"} THEN Tail(str) ELSE str

\* the base and the characters after the prefix of an unsigned literal
IntLiteral(u) ==
    IF u = <<>> \/ u[1] # "0" THEN [base |-> 10, body |-> u]
    ELSE IF Len(u) >= 3 /\ u[2] \in {"b", "B"} THEN [base |-> 2, body |-> SubSeq(u, 3, Len(u))]
    ELSE IF Len(u) >= 3 /\ u[2] \in {"o", "O"} THEN [base |-> 8, body |-> SubSeq(u, 3, Len(u))]
    ELSE IF Len(u) >= 3 /\ u[2] \in {"x", "X"} THEN [base |-> 16, body |-> SubSeq(u, 3, Len(u))]
    ELSE [base |-> 8, body |-> Tail(u)]

\* underscoreOK: an underscore follows a digit or the base prefix and is
\* followed by a digit; last is "^" at the start, "0" after a digit, "_"
\* after an underscore, "!" after anything else
RECURSIVE UnderscoreScan(_, _, _)
UnderscoreScan(str, hex, last) ==
    IF str = <<>> THEN last # "_"
    ELSE LET c == Head(str)
         IN  IF DigitValue(c) < 10 \/ (hex /\ DigitValue(c) < 16)
             THEN UnderscoreScan(Tail(str), hex, "0")
             ELSE IF c = "_"
                  THEN last = "0" /\ UnderscoreScan(Tail(str), hex, "_")
                  ELSE last # "_" /\ UnderscoreScan(Tail(str), hex, "!")

UnderscoreOK(u) ==
    IF Len(u) >= 2 /\ u[1] = "0" /\ u[2] \in {"b", "B", "o", "O", "x", "X"}
    THEN UnderscoreScan(SubSeq(u, 3, Len(u)), u[2] \in {"x", "X"}, "0")
    ELSE UnderscoreScan(u, FALSE, "^")

\* the digit values of a literal's body, underscores left out
DigitValues(body) ==
    LET ds == SelectSeq(body, LAMBDA c : c # "_")
    IN  [i \in 1..Len(ds) |-> DigitValue(ds[i])]

RECURSIVE StripZeros(_)
StripZeros(vs) == IF vs # <<>> /\ Head(vs) = 0 THEN StripZeros(Tail(vs)) ELSE vs

Repeat(v, n) == [i \in 1..n |-> v]

\* the digits of 2^63 - 1 and of 2^63 in a base
Int64Limit(base, neg) ==
    IF base = 10
    THEN <<9, 2, 2, 3, 3, 7, 2, 0, 3, 6, 8, 5, 4, 7, 7, 5, 8, 0>> \o (IF neg THEN <<8>> ELSE <<7>>)
    ELSE IF base = 16 THEN IF neg THEN <<8>> \o Repeat(0, 15) ELSE <<7>> \o Repeat(15, 15)
    ELSE IF base = 8 THEN IF neg THEN <<1>> \o Repeat(0, 21) ELSE Repeat(7, 21)
    ELSE IF neg THEN <<1>> \o Repeat(0, 63) ELSE Repeat(1, 63)

\* a <= b for digit strings of one length
RECURSIVE DigitsLeq(_, _)
DigitsLeq(a, b) ==
    IF a = <<>> THEN TRUE
    ELSE IF Head(a) # Head(b) THEN Head(a) < Head(b)
         ELSE DigitsLeq(Tail(a), Tail(b))

InRange(vs, base, neg) ==
    LET sig == StripZeros(vs)
        lim == Int64Limit(base, neg)
    IN  Len(sig) < Len(lim) \/ (Len(sig) = Len(lim) /\ DigitsLeq(sig, lim))

\* ParseInt returns no error
IsInt(str) ==
    LET u == Unsigned(str)
        lit == IntLiteral(u)
        vs == DigitValues(lit.body)
    IN  /\ u # <<>>
        /\ \A i \in 1..Len(vs) : vs[i] < lit.base
        /\ (\E i \in 1..Len(lit.body) : lit.body[i] = "_") => UnderscoreOK(u)
        /\ InRange(vs, lit.base, str[1] = "-")

RECURSIVE Magnitude(_, _, _)
Magnitude(vs, base, acc) ==
    IF vs = <<>> THEN acc ELSE Magnitude(Tail(vs), base, base * acc + Head(vs))

\* the value ParseInt returns (the model's integers hold magnitudes below 2^31)
ParseInt(str) ==
    LET lit == IntLiteral(Unsigned(str))
        m == Magnitude(DigitValues(lit.body), lit.base, 0)
    IN  IF str[1] = "-" THEN 0 - m ELSE m

\* flag.FlagSet.Parse: flags are read up to the first argument that is not
\* a flag (or up to "--"); everything after it is left in Args()
RECURSIVE FlagParse(_, _)
FlagParse(args, st) ==
    IF args = <<>> THEN [st EXCEPT !.rest = <<>>]
    ELSE
    LET a == Head(args)
    IN  IF Len(a) < 2 \/ a[1] # "-" THEN [st EXCEPT !.rest = args]
        ELSE IF a = <<"-", "-">> THEN [st EXCEPT !.rest = Tail(args)]
        ELSE
        LET minuses == IF a[2] = "-" THEN 2 ELSE 1
            body == SubSeq(a, minuses + 1, Len(a))
            eq == FirstIndex(body, "=", 2)
            hasValue == eq > 0
            name == IF hasValue THEN SubSeq(body, 1, eq - 1) ELSE body
            value == IF hasValue THEN SubSeq(body, eq + 1, Len(body)) ELSE <<>>
        IN  IF body = <<>> \/ body[1] \in {"-", "="} THEN [st EXCEPT !.err = ErrFlag]
            ELSE IF name \in BoolFlags
            THEN IF ~hasValue \/ value \in TrueLiterals
                 THEN FlagParse(Tail(args), [st EXCEPT !.bools[name] = TRUE])
                 ELSE IF value \in FalseLiterals
                 THEN FlagParse(Tail(args), [st EXCEPT !.bools[name] = FALSE])
                 ELSE [st EXCEPT !.err = ErrFlag]
            ELSE IF name \in StringFlags \cup IntFlags
            THEN IF ~hasValue /\ Len(args) = 1 THEN [st EXCEPT !.err = ErrFlag]
                 ELSE
                 LET val == IF hasValue THEN value ELSE args[2]
                     more == IF hasValue THEN Tail(args) ELSE Tail(Tail(args))
                 IN  IF name \in StringFlags
                     THEN FlagParse(more, [st EXCEPT !.strs[name] = val])
                     ELSE IF IsInt(val)
                     THEN FlagParse(more, [st EXCEPT !.workers = ParseInt(val)])
                     ELSE [st EXCEPT !.err = ErrFlag]
            ELSE [st EXCEPT !.err = ErrFlag]

\* unixAction: the first of c, x, t that is set
UnixAction(b) ==
    IF b[<<"c">>] THEN S_compress
    ELSE IF b[<<"x">>] THEN S_extract
    ELSE IF b[<<"t">>] THEN S_list
    ELSE <<>>

\* unixFormat: -z, -j, -Z override -format
UnixFormat(st) ==
    IF st.bools[<<"z">>] THEN S_targz
    ELSE IF st.bools[<<"j">>] THEN S_bzip2
    ELSE IF st.bools[<<"Z">>] THEN S_7zip
    ELSE st.strs[N_format]

Arg(pos, i) == IF Len(pos) >= i THEN pos[i] ELSE <<>>

\* Parser.Parse(args): [args |-> CLIArgs, err |-> error]
Parse(args, ncpu) ==
    LET st == FlagParse(ProcessUnixStyleFlags(args), FlagDefaults(ncpu))
        b == st.bools
        pos == st.rest
        result == [NoArgs EXCEPT !.Workers = st.workers]
        unixInput == IF b[<<"c">>] /\ Len(pos) >= 1 THEN Arg(pos, 2) ELSE Arg(pos, 1)
        unixOutput == IF b[<<"c">>] /\ Len(pos) >= 1 THEN Arg(pos, 1) ELSE Arg(pos, 2)
        unix == UnixAction(b) # <<>>
    IN  IF st.err # NoErr THEN [args |-> NoArgs, err |-> ErrFlag]
        ELSE IF b[N_help] \/ b[<<"h">>] THEN [args |-> [result EXCEPT !.Help = TRUE], err |-> NoErr]
        ELSE IF b[N_version] THEN [args |-> [result EXCEPT !.Version = TRUE], err |-> NoErr]
        ELSE [args |-> [result EXCEPT
                          !.Action = IF unix THEN UnixAction(b) ELSE st.strs[N_action],
                          !.Input = IF unix THEN unixInput ELSE st.strs[N_input],
                          !.Output = IF unix THEN unixOutput ELSE st.strs[N_output],
                          !.Verbose = b[<<"v">>] \/ b[N_verbose],
                          !.Format = UnixFormat(st),
                          !.Password = st.strs[N_password],
                          !.Compression = st.strs[N_compression]],
              err |-> NoErr]

\* ParseFormat(format)
ParseFormat(fmt) == IF ToLower(fmt) \in {S_targz, S_tgz} THEN "tar.gz" ELSE "zip"

\* args, err := parser.Parse(os.Args[1:])
ParseArgs ==
    /\ mainpc = "args"
    /\ cliArgs' = Parse(argv, numCPU).args
    /\ perr' = Parse(argv, numCPU).err
    /\ mainpc' = "parsed"
    /\ UNCHANGED <<argv, numCPU, opts, call, exitCode>>
    /\ UNCHANGED notCliVars

\* the switch on args.Compression: anything but fastest and best is normal
ParseLevel(compression) ==
    IF compression = S_fastest THEN "fastest"
    ELSE IF compression = S_best THEN "best"
    ELSE "normal"

\* the rest of main: exit on a parse error, help, version or missing
\* arguments, else build the ArchiveOptions and call the Operator
Main ==
    /\ mainpc = "parsed"
    /\ LET act == IF cliArgs.Action \in {S_compress, <<"c">>} THEN "compress"
                  ELSE IF cliArgs.Action \in {S_extract, <<"x">>} THEN "extract"
                  ELSE IF cliArgs.Action \in {S_list, <<"l">>} THEN "list"
                  ELSE "unknown"
           o == [Format |-> ParseFormat(cliArgs.Format), Password |-> cliArgs.Password,
                 Workers |-> cliArgs.Workers, Verbose |-> cliArgs.Verbose,
                 CompressionLevel |-> ParseLevel(cliArgs.Compression)]
           output == IF cliArgs.Output # <<>> THEN cliArgs.Output
                     ELSE IF act = "compress" THEN cliArgs.Input \o GetExtension(o.Format)
                     ELSE IF act = "extract" THEN Dot
                     ELSE <<>>
       IN  IF perr # NoErr
           THEN mainpc' = "exit" /\ exitCode' = 1 /\ opts' = opts /\ call' = call
           ELSE IF cliArgs.Help \/ cliArgs.Version
           THEN mainpc' = "exit" /\ exitCode' = 0 /\ opts' = opts /\ call' = call
           ELSE IF cliArgs.Action = <<>> \/ cliArgs.Input = <<>>
           THEN mainpc' = "exit" /\ exitCode' = 1 /\ opts' = opts /\ call' = call
           ELSE IF act = "unknown"
           THEN mainpc' = "exit" /\ exitCode' = 1 /\ opts' = o /\ call' = call
           ELSE /\ mainpc' = "operator" /\ exitCode' = exitCode /\ opts' = o
                /\ call' = [action |-> act, input |-> cliArgs.Input, output |-> output]
    /\ UNCHANGED <<argv, numCPU, cliArgs, perr>>
    /\ UNCHANGED notCliVars

\* Operator.Extract hands every input whose extension is not .gz to extractZip
ZipExtraction(c) == c.action = "extract" /\ ~IsGzPath(c.input)

\* the values the Operator's method can return to main: List refuses an
\* extension other than .zip and .gz; extractZip with a negative Workers
\* returns only when the archive does not open, make(chan struct{},
\* opts.Workers) panics otherwise; every other call returns nil or the error
\* of a file-system call
ActionReturns(c, o) ==
    IF c.action = "list" /\ ToLower(Ext(c.input)) \notin {<<".", "z", "i", "p">>, <<".", "g", "z">>}
    THEN {ErrUnsupported}
    ELSE IF ZipExtraction(c) /\ o.Workers < 0 THEN {ErrIO}
    ELSE {NoErr, ErrIO}

\* the action returned: if actionErr != nil { ...; os.Exit(1) }, else main
\* returns and the status is 0
Exit ==
    /\ mainpc = "operator"
    /\ \E actionErr \in ActionReturns(call, opts) :
          exitCode' = IF actionErr # NoErr THEN 1 ELSE 0
    /\ mainpc' = "exit"
    /\ UNCHANGED <<argv, numCPU, cliArgs, perr, opts, call>>
    /\ UNCHANGED notCliVars

\* the action never returns: extractZip on an archive that opened panics in
\* make(chan struct{}, opts.Workers) when Workers is negative, and with
\* Workers = 0 and an entry in the archive its loop blocks on the first
\* sem <- struct{}{} with no other goroutine running; there is no recover,
\* and the Go runtime ends the process with status 2 in both cases
Abort ==
    /\ mainpc = "operator"
    /\ ZipExtraction(call) /\ opts.Workers <= 0
    /\ exitCode' = 2
    /\ mainpc' = "aborted"
    /\ UNCHANGED <<argv, numCPU, cliArgs, perr, opts, call>>
    /\ UNCHANGED notCliVars

\* the arguments of a command line
A_cvf == <<"-", "c", "v", "f">>
A_xvf == <<"-", "x", "v", "f">>
A_cvx == <<"-", "c", "v", "x">>
A_password == <<"-">> \o N_password \o <<"=", "p">>
A_workers0 == <<"-">> \o N_workers \o <<"=", "0">>
A_workersNeg == <<"-">> \o N_workers \o <<"=", "-", "1">>
A_workersOct == <<"-">> \o N_workers \o <<"=", "0", "1", "0">>
A_compression == <<"-">> \o N_compression \o <<"=">> \o S_fastest
A_action == <<"-">> \o N_action \o <<"=">> \o S_compress
A_input == <<"-">> \o N_input \o <<"=", "d">>
Tokens == {A_cvf, A_xvf, A_cvx, <<"a">>, <<"d">>, A_password, A_workers0, A_workersNeg,
           A_workersOct, A_compression, A_action, A_input}
CommandLines == UNION {[1..n -> Tokens] : n \in 0..MaxArgs}

InitCli ==
    /\ argv \in CommandLines
    /\ numCPU \in 1..MaxWorkers
    /\ cliArgs = NoArgs /\ perr = NoErr /\ mainpc = "args"
    /\ opts = NoOpts /\ call = NoCall /\ exitCode = 0
    /\ GuardIdle
    /\ ZipIdle
    /\ CryptoIdle
    /\ OpIdle
    /\ TarIdle
    /\ FileIdle

NextCli == ParseArgs \/ Main \/ Exit \/ Abort

SpecCli == InitCli /\ [][NextCli]_vars

\* ------------------------------- Compress and Extract: handles and error paths
\* One call of Operator.Compress or Operator.Extract, followed through its
\* opens, its deferred Close calls and its return statements.  Every call that
\* can fail draws its outcome; fbody is the error on its way to the caller,
\* lost collects the calls whose error value nothing looked at.  Compress
\* and extractTarGz take their entries one after the other; extractZip
\* starts a goroutine per entry, each holding a slot of sem from before its
\* go statement until its deferred <-sem, and returns only after every
\* goroutine has finished.  A goroutine is followed call by call: f.Open,
\* os.OpenFile, io.Copy, the deferred outFile.Close and rc.Close, the send
\* on errChan, the Fprintf, <-sem and wg.Done.
Handle(kind, id) == [kind |-> kind, id |-> id]


\* the call extracts a zip archive: its entries are tasks of the worker pool
Pooled(o) == o.kind = "extract" /\ o.format = "zip"

FileOps ==
    {o \in [kind : {"compress", "extract"}, format : {"zip", "tar.gz"},
            pw : BOOLEAN, single : BOOLEAN, n : 0..MaxEntries, workers : 1..MaxWorkers] :
        /\ o.single => (o.kind = "compress" /\ o.n = 1)
        /\ ~Pooled(o) => o.workers = 1}

\* the goroutines of extractZip that have not finished
Running == {i \in 1..Len(ftasks) : ftasks[i].pc # "done"}

\* the Close calls the codec function defers before it touches an entry, in
\* the order of the defer statements
CodecDefers(o) ==
    IF o.kind = "compress"
    THEN IF o.format = "zip" THEN <<"zipWriter">> ELSE <<"gzWriter", "tarWriter">>
    ELSE IF o.format = "zip" THEN <<"zipReader">> ELSE <<"gzReader">>

\* the Close calls that finalise written data
Finalisers == {"zipWriter", "tarWriter", "gzWriter"}

\* the handle a deferred Close releases
Released(name) ==
    IF name = "zipReader" THEN {Handle("zipReader", 0)}
    ELSE IF name = "file" THEN {Handle("input", 1)}
    ELSE {}

\* the first error wins: errChan holds one error, the other codecs return at once
FirstErr(e) == IF fbody = NoErr THEN e ELSE fbody

\* the callback of filepath.Walk closes the file it opened when it returns
ClosedByCallbackNever(h) == {}

ClosedByCallback(h) == {h}

\* os.Stat and os.Create of Compress, os.Open of Extract
FStart ==
    /\ fpc = "start"
    /\ \E ok \in BOOLEAN :
        IF ok
        THEN /\ fopen' = {Handle("archive", 0)}
             /\ fpc' = "wrap"
             /\ ferr' = ferr
        ELSE /\ ferr' = ErrIO
             /\ fpc' = "returned"
             /\ fopen' = fopen
    /\ UNCHANGED <<fop, fi, ftasks, fsem, codefers, fbody, lost>>
    /\ UNCHANGED notFileVars

\* the encryption layer, then the first lines of the codec function up to its
\* defer statements
FWrap ==
    /\ fpc = "wrap"
    /\ \E setup \in BOOLEAN, codec \in BOOLEAN :
        IF (fop.pw /\ ~setup) \/ (fop.kind = "extract" /\ ~codec)
        THEN /\ fbody' = ErrIO
             /\ fpc' = "operatorReturn"
             /\ UNCHANGED <<fopen, codefers>>
        ELSE /\ codefers' = CodecDefers(fop)
             /\ fopen' = fopen \cup
                    (IF fop.kind = "extract" /\ fop.format = "zip"
                     THEN {Handle("zipReader", 0)} ELSE {})
             /\ fpc' = "entries"
             /\ fbody' = fbody
    /\ UNCHANGED <<fop, fi, ftasks, fsem, ferr, lost>>
    /\ UNCHANGED notFileVars

\* the next entry of Compress or extractTarGz: os.Open of the input file in
\* the Walk callback, os.Create of the output file in extractTarGz
FEntryOpen ==
    /\ fpc = "entries" /\ fi < fop.n /\ ~Pooled(fop)
    /\ \E ok \in BOOLEAN :
        IF ok
        THEN /\ fopen' = fopen \cup
                   {Handle(IF fop.kind = "compress" THEN "input" ELSE "output", fi + 1)}
             /\ codefers' = IF fop.single THEN Append(codefers, "file") ELSE codefers
             /\ fpc' = "copy"
             /\ fbody' = fbody
        ELSE /\ fbody' = ErrIO
             /\ fpc' = "codecReturn"
             /\ UNCHANGED <<fopen, codefers>>
    /\ UNCHANGED <<fop, fi, ftasks, fsem, ferr, lost>>
    /\ UNCHANGED notFileVars

\* io.Copy of an entry of Compress or extractTarGz and the Close that
\* follows it
FEntryCopy ==
    /\ fpc = "copy"
    /\ \E ok \in BOOLEAN, closed \in BOOLEAN :
        /\ IF fop.kind = "compress"
           THEN /\ fopen' = IF fop.single THEN fopen
                            ELSE fopen \ ClosedByCallback(Handle("input", fi + 1))
                /\ lost' = lost
           ELSE /\ fopen' = fopen \ {Handle("output", fi + 1)}
                /\ lost' = IF closed THEN lost ELSE lost \cup {"outFile"}
        /\ IF ok
           THEN /\ fi' = fi + 1 /\ fpc' = "entries" /\ fbody' = fbody
           ELSE /\ fbody' = ErrIO /\ fpc' = "codecReturn" /\ fi' = fi
    /\ UNCHANGED <<fop, ftasks, fsem, codefers, ferr>>
    /\ UNCHANGED notFileVars

\* extractZip's loop: wg.Add(1); sem <- struct{}{} blocks while every slot
\* is taken
FAcquire ==
    /\ fpc = "entries" /\ fi < fop.n /\ Pooled(fop)
    /\ fsem < fop.workers
    /\ fsem' = fsem + 1
    /\ fpc' = "go"
    /\ UNCHANGED <<fop, fi, ftasks, fopen, codefers, fbody, ferr, lost>>
    /\ UNCHANGED notFileVars

\* go func(f *zip.File) {...}(file)
FGo ==
    /\ fpc = "go"
    /\ ftasks' = Append(ftasks, [pc |-> "open", err |-> NoErr])
    /\ fi' = fi + 1
    /\ fpc' = "entries"
    /\ UNCHANGED <<fop, fsem, fopen, codefers, fbody, ferr, lost>>
    /\ UNCHANGED notFileVars

\* extractZipFile up to rc, err := f.Open(): the path check or a MkdirAll
\* fails, a directory entry returns after its MkdirAll, f.Open fails, or
\* the entry reader is open
FTaskOpen(i) ==
    /\ ftasks[i].pc = "open"
    /\ \E r \in {"opened", "failed", "directory"} :
        /\ ftasks' = [ftasks EXCEPT
                         ![i].pc = IF r = "opened" THEN "openFile"
                                   ELSE IF r = "failed" THEN "report" ELSE "release",
                         ![i].err = IF r = "failed" THEN ErrIO ELSE NoErr]
        /\ fopen' = IF r = "opened" THEN fopen \cup {Handle("entryReader", i)} ELSE fopen
    /\ UNCHANGED <<fpc, fop, fi, fsem, codefers, fbody, ferr, lost>>
    /\ UNCHANGED notFileVars

\* outFile, err := os.OpenFile(destPath, ...): on an error extractZipFile
\* returns and the deferred rc.Close is the one call left to run
FTaskOpenFile(i) ==
    /\ ftasks[i].pc = "openFile"
    /\ \E ok \in BOOLEAN :
        IF ok
        THEN /\ fopen' = fopen \cup {Handle("output", i)}
             /\ ftasks' = [ftasks EXCEPT ![i].pc = "copy"]
        ELSE /\ fopen' = fopen
             /\ ftasks' = [ftasks EXCEPT ![i].pc = "closeRc", ![i].err = ErrIO]
    /\ UNCHANGED <<fpc, fop, fi, fsem, codefers, fbody, ferr, lost>>
    /\ UNCHANGED notFileVars

\* _, err = io.Copy(outFile, rc); return err
FTaskCopy(i) ==
    /\ ftasks[i].pc = "copy"
    /\ \E ok \in BOOLEAN :
        ftasks' = [ftasks EXCEPT ![i].pc = "closeOut",
                                 ![i].err = IF ok THEN NoErr ELSE ErrIO]
    /\ UNCHANGED <<fpc, fop, fi, fsem, fopen, codefers, fbody, ferr, lost>>
    /\ UNCHANGED notFileVars

\* deferred, registered last and run first: outFile.Close(), its result
\* dropped
FTaskCloseOut(i) ==
    /\ ftasks[i].pc = "closeOut"
    /\ fopen' = fopen \ {Handle("output", i)}
    /\ \E closed \in BOOLEAN : lost' = IF closed THEN lost ELSE lost \cup {"outFile"}
    /\ ftasks' = [ftasks EXCEPT ![i].pc = "closeRc"]
    /\ UNCHANGED <<fpc, fop, fi, fsem, codefers, fbody, ferr>>
    /\ UNCHANGED notFileVars

\* deferred: rc.Close(); extractZipFile has returned to the goroutine
FTaskCloseRc(i) ==
    /\ ftasks[i].pc = "closeRc"
    /\ fopen' = fopen \ {Handle("entryReader", i)}
    /\ ftasks' = [ftasks EXCEPT ![i].pc = IF ftasks[i].err # NoErr THEN "report" ELSE "release"]
    /\ UNCHANGED <<fpc, fop, fi, fsem, codefers, fbody, ferr, lost>>
    /\ UNCHANGED notFileVars

\* select { case errChan <- err: default: }: errChan keeps the first error
FTaskReport(i) ==
    /\ ftasks[i].pc = "report"
    /\ fbody' = FirstErr(ftasks[i].err)
    /\ ftasks' = [ftasks EXCEPT ![i].pc = "print"]
    /\ UNCHANGED <<fpc, fop, fi, fsem, fopen, codefers, ferr, lost>>
    /\ UNCHANGED notFileVars

\* fmt.Fprintf(os.Stderr, "Error extracting %s: %v\n", f.Name, err)
FTaskPrint(i) ==
    /\ ftasks[i].pc = "print"
    /\ ftasks' = [ftasks EXCEPT ![i].pc = "release"]
    /\ UNCHANGED <<fpc, fop, fi, fsem, fopen, codefers, fbody, ferr, lost>>
    /\ UNCHANGED notFileVars

\* deferred: <-sem
FTaskRelease(i) ==
    /\ ftasks[i].pc = "release"
    /\ fsem > 0
    /\ fsem' = fsem - 1
    /\ ftasks' = [ftasks EXCEPT ![i].pc = "wgDone"]
    /\ UNCHANGED <<fpc, fop, fi, fopen, codefers, fbody, ferr, lost>>
    /\ UNCHANGED notFileVars

\* deferred: wg.Done()
FTaskDone(i) ==
    /\ ftasks[i].pc = "wgDone"
    /\ ftasks' = [ftasks EXCEPT ![i].pc = "done"]
    /\ UNCHANGED <<fpc, fop, fi, fsem, fopen, codefers, fbody, ferr, lost>>
    /\ UNCHANGED notFileVars

\* the codec function returns (extractZip: after wg.Wait() and the select
\* on errChan): its deferred Close calls run, and what they return goes
\* nowhere
FCodecReturn ==
    /\ \/ fpc = "entries" /\ fi = fop.n /\ Running = {}
       \/ fpc = "codecReturn"
    /\ \E failed \in SUBSET (Finalisers \cap {codefers[i] : i \in 1..Len(codefers)}) :
        lost' = lost \cup failed
    /\ fopen' = fopen \ UNION {Released(codefers[i]) : i \in 1..Len(codefers)}
    /\ codefers' = <<>>
    /\ fpc' = "operatorReturn"
    /\ UNCHANGED <<fop, fi, ftasks, fsem, fbody, ferr>>
    /\ UNCHANGED notFileVars

\* Compress or Extract returns what the codec returned; the deferred Close of
\* the archive file runs
FOperatorReturn ==
    /\ fpc = "operatorReturn"
    /\ \E closed \in BOOLEAN :
        lost' = IF fop.kind = "compress" /\ ~closed THEN lost \cup {"archive"} ELSE lost
    /\ fopen' = fopen \ {Handle("archive", 0)}
    /\ ferr' = fbody
    /\ fpc' = "returned"
    /\ UNCHANGED <<fop, fi, ftasks, fsem, codefers, fbody>>
    /\ UNCHANGED notFileVars

InitFile ==
    /\ fop \in FileOps
    /\ fpc = "start" /\ fi = 0 /\ ftasks = <<>> /\ fsem = 0
    /\ fopen = {} /\ codefers = <<>>
    /\ fbody = NoErr /\ ferr = NoErr /\ lost = {}
    /\ GuardIdle /\ ZipIdle /\ CryptoIdle /\ OpIdle /\ TarIdle /\ CliIdle

NextFile ==
    \/ FStart
    \/ FWrap
    \/ FEntryOpen
    \/ FEntryCopy
    \/ FAcquire
    \/ FGo
    \/ \E i \in 1..Len(ftasks) : FTaskOpen(i)
    \/ \E i \in 1..Len(ftasks) : FTaskOpenFile(i)
    \/ \E i \in 1..Len(ftasks) : FTaskCopy(i)
    \/ \E i \in 1..Len(ftasks) : FTaskCloseOut(i)
    \/ \E i \in 1..Len(ftasks) : FTaskCloseRc(i)
    \/ \E i \in 1..Len(ftasks) : FTaskReport(i)
    \/ \E i \in 1..Len(ftasks) : FTaskPrint(i)
    \/ \E i \in 1..Len(ftasks) : FTaskRelease(i)
    \/ \E i \in 1..Len(ftasks) : FTaskDone(i)
    \/ FCodecReturn
    \/ FOperatorReturn

SpecFile == InitFile /\ [][NextFile]_vars

\* ------------------------------------------ handles and error paths: claims
\* C23: whenever a step of Compress or Extract failed, the Close calls that
\* finalise the container or an extracted file included, the call returns an
\* error.
C23_NoErrorDiscarded ==
    (fpc = "returned" /\ lost # {}) => ferr # NoErr

\* C25: when Compress or Extract has returned no handle it opened is open,
\* whichever return statement it took, and while Compress runs at most one
\* input file is open.
C25_HandlesReleased ==
    /\ fpc = "returned" => fopen = {}
    /\ fop.kind = "compress" => Cardinality({h \in fopen : h.kind = "input"}) <= 1

C25_Witness ==
    /\ fpc = "returned" /\ fop.kind = "compress" /\ ~fop.single
    /\ fi >= 2 /\ ferr # NoErr

\* ---------------------------------------------------------- Operator: claims
\* the relative name of a location below the output root
RelName(rootLoc, loc) ==
    JoinSep(SubSeq(Elems(loc), Len(Elems(rootLoc)) + 1, Len(Elems(loc))))

\* what Extract left below the output root, by relative name
ExtractedTree ==
    LET rootLoc == Location(wd, outputPath)
    IN  {Node(RelName(rootLoc, n.loc), n.kind, n.data) :
            n \in {m \in outTree : Inside(rootLoc, m.loc) /\ m.loc # rootLoc}}

\* the input tree below its root
OriginalTree == {tree.nodes[i] : i \in {j \in 1..Len(tree.nodes) : tree.nodes[j].name # Dot}}

\* C4: Extract of the archive Compress made of a tree, with the same
\* options, succeeds and leaves exactly the tree's relative paths, contents
\* and directories, for zip and tar.gz, with and without a password.
C4_RoundTrip ==
    opc = "extracted" => (xerr = NoErr /\ ExtractedTree = OriginalTree)

\* C15: Extract and List decode an archive Compress wrote as tar.gz, named
\* *.tar.gz or *.tgz, with the tar.gz decoder, and one written as zip, named
\* *.zip, with the zip decoder.
C15_FormatByExtension ==
    /\ opc = "extracted" => (IsGzPath(archivePath) <=> format = "tar.gz")
    /\ opc = "listed" => ListFormat(archivePath) = format

\* the entries of the archive Compress wrote, in archive order, by the name
\* each was stored under and the size of its content
ArchiveEntries ==
    [i \in 1..Len(tree.nodes) |->
        [name |-> IF format = "zip" THEN ZipHeaderName(tree, tree.nodes[i])
                  ELSE tree.nodes[i].name,
         size |-> Len(tree.nodes[i].data)]]

\* C19: List changes nothing on disk; for an archive Compress wrote under a
\* name with a known extension, with or without a password, it prints
\* exactly one line per entry, in archive order, with the name and the
\* uncompressed size; for an extension that is neither .zip nor .gz it
\* returns the unsupported-format error and opens nothing.
C19_ListReadsOnly ==
    [][opc' = "listed" =>
          /\ UNCHANGED <<sink, outTree, written>>
          /\ ListFormat(archivePath) = "unsupported" =>
                 (lerr' = ErrUnsupported /\ ~lopened' /\ listing' = <<>>)
          /\ ListFormat(archivePath) # "unsupported" =>
                 (lerr' = NoErr /\ lopened' /\ listing' = ArchiveEntries)]_vars

\* ------------------------------------------------------ command line: claims
\* a Unix-style compression command: -cvf <archive> <folder> <option>...
UnixCompress ==
    /\ Len(argv) >= 3 /\ argv[1] = A_cvf
    /\ argv[2] \in {<<"a">>, <<"d">>} /\ argv[3] \in {<<"a">>, <<"d">>}
    /\ \A i \in 4..Len(argv) : argv[i] \in {A_password, A_workers0, A_workersNeg, A_workersOct, A_compression}

\* the long-form command line with the same archive, folder and options
LongForm ==
    <<A_action, <<"-">> \o N_input \o <<"=">> \o argv[3],
      <<"-">> \o N_output \o <<"=">> \o argv[2]>> \o SubSeq(argv, 4, Len(argv))

\* C16: for a Unix-style invocation with long-form options after the
\* positional arguments, Parse returns the same Password, Workers and
\* Compression as for the equivalent long-form invocation.
C16_StylesAgree ==
    (mainpc # "args" /\ UnixCompress) =>
        LET long == Parse(LongForm, numCPU)
        IN  /\ perr = long.err
            /\ cliArgs.Password = long.args.Password
            /\ cliArgs.Workers = long.args.Workers
            /\ cliArgs.Compression = long.args.Compression

\* the argument is a combined flag with more than one of c, x, t
HasActionConflict(arg) ==
    /\ IsCombinedFlag(arg)
    /\ Cardinality({ch \in {"c", "x", "t"} : \E i \in 2..Len(arg) : arg[i] = ch}) > 1

\* C17: a command line that combines more than one action flag among c, x,
\* t is rejected by Parse with an error.
C17_ActionConflictRejected ==
    (mainpc # "args" /\ \E i \in 1..Len(argv) : HasActionConflict(argv[i])) =>
        perr # NoErr

\* C18: every ArchiveOptions value main hands to the Operator has
\* Workers >= 1.
C18_WorkersAtLeastOne ==
    mainpc = "operator" => opts.Workers >= 1

\* ------------------------------------------------ encrypted stream: claims
RECURSIVE Concat(_)
Concat(ss) == IF ss = <<>> THEN <<>> ELSE Head(ss) \o Concat(Tail(ss))

\* C3: no two Write calls on one EncryptedWriter seal with the same
\* (key, nonce) pair.
C3_NonceUsedOnce ==
    \A i, j \in 1..Len(seals) : i # j => seals[i] # seals[j]

\* C5: reading an untouched stream with the writer's password returns
\* exactly the written bytes: when Read first reports the end of the stream
\* or an error, the caller has received the concatenation of all p written.
C5_StreamRoundTrip ==
    (cpc = "reading" /\ ~tampered /\ er.password = ew.password
        /\ nerrs = 1 /\ lastRead.err # NoErr)
    => got = Concat(wrote)

\* C6: a Read whose authentication fails returns n = 0 and an error and
\* leaves the caller's buffer as it was; a reader with another password than
\* the writer's never returns a byte; whatever a Read returns is the
\* plaintext of one sealed Write of an untouched message.
C6_NoUnauthenticatedBytes ==
    /\ lastRead.err = ErrDecrypt => (lastRead.n = 0 /\ lastRead.p = Blank(lastRead.len))
    /\ (cpc = "reading" /\ er.password # ew.password) => got = <<>>
    /\ (nreads > 0 /\ lastRead.err = NoErr) =>
          \E i \in 1..Len(wrote) : SubSeq(lastRead.p, 1, lastRead.n) = wrote[i]

C6_WitnessDelivered == cpc = "reading" /\ tampered /\ got # <<>> /\ nerrs = 1

C6_Witness ==
    /\ cpc = "reading" /\ er.password # ew.password /\ Len(wrote) = 2
    /\ nreads = 2 /\ lastRead.err = ErrDecrypt /\ lastRead.n = 0

\* C22: the salt and then the nonce are written exactly once, when the
\* writer is made and before any ciphertext; NewEncryptedReader consumes
\* the salt and then the nonce, once, before any Read pulls ciphertext.
C22_HeaderOnceFirst ==
    /\ cpc = "new" => sink = <<>>
    /\ (cpc \in {"writing", "written", "reading"} /\ ~tampered) =>
          /\ Len(sink) >= SaltSize + NonceSize
          /\ SubSeq(sink, 1, SaltSize) = SaltBytes(ew.salt)
          /\ SubSeq(sink, SaltSize + 1, SaltSize + NonceSize) = NonceBytes(ew.nonce)
          /\ \A i \in (SaltSize + NonceSize + 1)..Len(sink) : sink[i].kind \in {"ct", "tag"}
    /\ cpc \in {"new", "writing", "written"} => (rpos = 0 /\ nreads = 0)
    /\ cpc = "reading" =>
          /\ rpos >= SaltSize + NonceSize
          /\ nreads = 0 => rpos = SaltSize + NonceSize
          /\ ~tampered => (er.nonce = ew.nonce /\ er.key = Key(er.password, ew.salt))

C22_Witness ==
    /\ cpc = "reading" /\ ~tampered /\ Len(wrote) = 2 /\ nreads = 1
    /\ rpos > SaltSize + NonceSize /\ er.password = ew.password

\* io.EOF
EOF == "EOF"

\* C28: a successful Write returns n = len(p), never more than len(p).
C28_WriteReturnsLen ==
    Len(wrote) > 0 => lastWrite.n = lastWrite.len

\* C29: once every sealed chunk of a valid stream has been delivered and
\* the source is exhausted, Read reports io.EOF; no Read returns n > len(p).
C29_CleanEndOfStream ==
    [][nreads' = nreads + 1 =>
          /\ lastRead'.n <= lastRead'.len
          /\ (~tampered /\ er.password = ew.password /\ rpos = Len(sink)
                 /\ got = Concat(wrote)) => lastRead'.err = EOF]_vars

\* ---------------------------------------------------- path guard: claims
HasTraversalSegment(name) == \E i \in 1..Len(SplitPath(name)) : SplitPath(name)[i] = DotDot

\* C2: an entry named with a ".." segment or an absolute path yields an
\* error, and nothing is ever created outside the output root (both formats,
\* every output root).
C2_TraversalRejected ==
    gpc = "done" =>
        /\ (HasTraversalSegment(entryName) \/ IsAbs(entryName)) => gerr # NoErr
        /\ \A w \in written : Inside(Abs(wd, outputPath), w.loc)

\* C7: an accepted destination is the output root or a descendant of it
\* below a separator, never a mere string-prefix sibling (both formats).
C7_AcceptsOnlyDescendants ==
    (gpc = "done" /\ gerr \notin {ErrIllegalPath, ErrInvalidPath}) =>
        LET absDest == Abs(wd, Join(outputPath, entryName))
            absRoot == Abs(wd, outputPath)
        IN  absDest = absRoot \/ Inside(absRoot, absDest)

\* C13: in both formats every entry whose name has a ".." segment or is an
\* absolute path is rejected with the "illegal file path" error that names
\* the entry, also when the joined path still lies inside the output root.
C13_TraversalNamesRejected ==
    (gpc = "done" /\ gerr # ErrInvalidPath
        /\ (HasTraversalSegment(entryName) \/ IsAbs(entryName))) =>
        gerr = ErrIllegalPath

\* a relative name whose segments are all ordinary (not empty, ".", "..")
PlainRelative(name) ==
    /\ ~IsAbs(name)
    /\ \A i \in 1..Len(SplitPath(name)) : SplitPath(name)[i] \notin {<<>>, Dot, DotDot}

\* C14: with the output root "." (the default of extraction) no entry with
\* a plain relative name is refused by the security check, in either format.
C14_CurrentDirAccepted ==
    (gpc = "done" /\ outputPath = Dot /\ PlainRelative(entryName)) =>
        gerr # ErrIllegalPath

\* the check of the extractor that handles the entry accepts it
GuardAccepts ==
    IF format = "zip" THEN ZipGuardAccepts(wd, outputPath, entryName)
    ELSE TarGuardAccepts(outputPath, entryName)

\* C21: in both formats the check comes before any filesystem mutation for
\* the entry: an entry the check rejects returns the error with nothing
\* created, and whatever was created belongs to an entry the check accepted.
C21_CheckBeforeMutation ==
    gpc = "done" =>
        /\ ~GuardAccepts => (gerr \in {ErrIllegalPath, ErrInvalidPath} /\ written = {})
        /\ written # {} => GuardAccepts

C21_Witness ==
    /\ gpc = "done" /\ format = "tar.gz" /\ gerr = ErrIllegalPath /\ written = {}
    /\ outputPath = <<"a">> /\ entryName = <<".", ".">>

\* C30: for every output root, the filesystem root "/" included,
\* extractZipFile's check accepts every entry with a plain relative name.
C30_ZipAcceptsLegitimate ==
    (gpc = "done" /\ format = "zip" /\ PlainRelative(entryName)) =>
        gerr # ErrIllegalPath

\* ------------------------------------------- Operator: encryption layer
\* C20: with an empty password there is no encryption layer: the archive
\* file holds exactly the bytes the codec wrote, with no salt or nonce in
\* front and nothing sealed, and Extract gives its decoder the file from
\* its first byte, without creating a reader that consumes a header.
C20_NoPasswordNoLayer ==
    password = "" =>
        /\ opc \in {"compressed", "extracted", "listed"} =>
               (ew = NoWriter /\ seals = <<>> /\ sink = Concat(wrote))
        /\ opc = "extracted" => (er = NoReader /\ xin = sink)

C20_Witness ==
    /\ password = "" /\ opc = "extracted" /\ format = "tar.gz" /\ xerr = NoErr
    /\ Len(wrote) >= 3 /\ xin = Concat(wrote) /\ outTree # {}

====
